---- MODULE Spec2Model ----
(***************************************************************************)
(* Model of kicad-import.py: the import of one vendor archive into the      *)
(* local KiCad libraries (import_all and its four stages), with the file    *)
(* system, the operator's answers and the modification ledger as state.     *)
(*                                                                          *)
(* Text is modelled character by character: a string is a sequence of       *)
(* one-character strings, a text file is the sequence of its lines (each    *)
(* line without its terminating newline; every line of a file is taken to   *)
(* end with a newline, so that splitlines / '\n'.join(..) + '\n' and        *)
(* readlines / write keep the sequence of lines).                           *)
(***************************************************************************)
EXTENDS Integers, Sequences, FiniteSets, TLC

VARIABLES
    fs,         \* the file system under REMOTE_LIB_PATH, REMOTE_FOOTPRINTS_PATH, REMOTE_3DMODEL_PATH
    archive,    \* the zip file chosen for this session
    pc,         \* position inside import_all
    exc,        \* the exception that ended import_all, or "none"
    ret,        \* values returned by the stages (found_model, footprint paths)
    ledger,     \* modified_objects.dict, in insertion order
    run,        \* number of import_all calls started so far
    aux         \* history of the current and the previous run (observation only)

vars == <<fs, archive, pc, exc, ret, ledger, run, aux>>

----------------------------------------------------------------------------
(* Python string operations, on sequences of characters *)

\* s[n:]
Drop(s, n) == IF n >= Len(s) THEN <<>> ELSE SubSeq(s, n + 1, Len(s))

\* s[:n]
Take(s, n) == IF n >= Len(s) THEN s ELSE SubSeq(s, 1, n)

\* s.startswith(p)
StartsWith(s, p) == Len(p) <= Len(s) /\ SubSeq(s, 1, Len(p)) = p

\* s.endswith(p)
EndsWith(s, p) == Len(p) <= Len(s) /\ SubSeq(s, Len(s) - Len(p) + 1, Len(s)) = p

\* str.isspace() for one character: the whitespace that strip() and split() take off,
\* which is TAB, LF, VT, FF, CR, FS, GS, RS, US, space, NEL, NBSP and the Unicode
\* spaces.  Of the last, U+1680 is the one a string of this module can hold
\* (U+2000-U+200A, U+2028, U+2029, U+202F, U+205F and U+3000 cannot be written).
IsSpace(c) ==
    c \in {" ", "\t", "\n", "\r", "\f", "", "", "", "", "",
           "", " ", " "}

RECURSIVE LStrip(_)
LStrip(s) == IF s # <<>> /\ IsSpace(Head(s)) THEN LStrip(Tail(s)) ELSE s

RECURSIVE RStrip(_)
RStrip(s) == IF s # <<>> /\ IsSpace(s[Len(s)]) THEN RStrip(SubSeq(s, 1, Len(s) - 1)) ELSE s

\* s.strip()
Strip(s) == RStrip(LStrip(s))

RECURSIVE LStripChar(_, _)
LStripChar(s, c) == IF s # <<>> /\ Head(s) = c THEN LStripChar(Tail(s), c) ELSE s

RECURSIVE RStripChar(_, _)
RStripChar(s, c) == IF s # <<>> /\ s[Len(s)] = c THEN RStripChar(SubSeq(s, 1, Len(s) - 1), c) ELSE s

\* s.strip(c) for a one-character c
StripChar(s, c) == RStripChar(LStripChar(s, c), c)

\* s.find(sub) + 1: the 1-based position of the first occurrence, 0 when there is none
Find(s, sub) ==
    LET hits == {i \in 1..(Len(s) + 1) :
                    i + Len(sub) - 1 <= Len(s) /\ SubSeq(s, i, i + Len(sub) - 1) = sub}
    IN IF hits = {} THEN 0 ELSE CHOOSE i \in hits : \A j \in hits : i <= j

\* s.replace(old, new, 1)
Replace1(s, old, new) ==
    LET i == Find(s, old)
    IN IF i = 0 THEN s
       ELSE Take(s, i - 1) \o new \o Drop(s, i - 1 + Len(old))

\* the first whitespace-delimited token of s and what follows it
RECURSIVE TokenEnd(_, _)
TokenEnd(s, i) == IF i <= Len(s) /\ ~IsSpace(s[i]) THEN TokenEnd(s, i + 1) ELSE i

\* s.split()
RECURSIVE Split(_)
Split(s) ==
    LET t == LStrip(s)
    IN IF t = <<>> THEN <<>>
       ELSE LET e == TokenEnd(t, 1)
            IN <<Take(t, e - 1)>> \o Split(Drop(t, e - 1))

\* re.match('# *end ', line, re.IGNORECASE)
IsTrailer(line) ==
    /\ StartsWith(line, <<"#">>)
    /\ LET r == LStripChar(Tail(line), " ")
       IN /\ Len(r) >= 4
          /\ r[1] \in {"e", "E"}
          /\ r[2] \in {"n", "N"}
          /\ r[3] \in {"d", "D"}
          /\ r[4] = " "

----------------------------------------------------------------------------
(* String literals of the source *)

\* '#'
s_hash == <<"#">>

\* '$CMP '
s_CMP == <<"$","C","M","P"," ">>

\* '$ENDCMP'
s_ENDCMP == <<"$","E","N","D","C","M","P">>

\* 'D'
s_D == <<"D">>

\* 'F'
s_F == <<"F">>

\* 'D '
s_D_sp == <<"D"," ">>

\* 'F '
s_F_sp == <<"F"," ">>

\* 'DEF '
s_DEF == <<"D","E","F"," ">>

\* 'ENDDEF'
s_ENDDEF == <<"E","N","D","D","E","F">>

\* 'F2'
s_F2 == <<"F","2">>

\* 'F1 '
s_F1 == <<"F","1"," ">>

\* ':'
s_colon == <<":">>

\* '# '
s_hash_sp == <<"#"," ">>

\* '.step'
s_dot_step == <<".","s","t","e","p">>

\* '.kicad_mod'
s_dot_kicad_mod == <<".","k","i","c","a","d","_","m","o","d">>

\* '.mod'
s_dot_mod == <<".","m","o","d">>

\* 'Yes'
s_Yes == <<"Y","e","s">>

\* 'SNAPEDA'
s_SNAPEDA == <<"S","N","A","P","E","D","A">>

\* 'OCTOPART'
s_OCTOPART == <<"O","C","T","O","P","A","R","T">>

\* 'SAMACSYS'
s_SAMACSYS == <<"S","A","M","A","C","S","Y","S">>

\* 'ULTRA_LIBRARIAN'
s_ULTRA_LIBRARIAN == <<"U","L","T","R","A","_","L","I","B","R","A","R","I","A","N">>

\* 'EESchema-DOCLIB  Version 2.0'
t_dcm_1 == <<"E","E","S","c","h","e","m","a","-","D","O","C","L","I","B"," "," ","V","e","r","s","i","o","n"," ","2",".","0">>

\* '#End Doc Library'
t_dcm_2 == <<"#","E","n","d"," ","D","o","c"," ","L","i","b","r","a","r","y">>

\* 'EESchema-LIBRARY Version 2.4'
t_lib_1 == <<"E","E","S","c","h","e","m","a","-","L","I","B","R","A","R","Y"," ","V","e","r","s","i","o","n"," ","2",".","4">>

\* '#encoding utf-8'
t_lib_2 == <<"#","e","n","c","o","d","i","n","g"," ","u","t","f","-","8">>

\* '# End Library'
t_lib_3 == <<"#"," ","E","n","d"," ","L","i","b","r","a","r","y">>

\* '  (model "${REMOTE_3DMODEL_DIR}/'
m_1_pre == <<" "," ","(","m","o","d","e","l"," ","\"","$","{","R","E","M","O","T","E","_","3","D","M","O","D","E","L","_","D","I","R","}","/">>

\* '"'
m_1_post == <<"\"">>

\* '    (offset (xyz 0 0 0))'
m_2 == <<" "," "," "," ","(","o","f","f","s","e","t"," ","(","x","y","z"," ","0"," ","0"," ","0",")",")">>

\* '    (scale (xyz 1 1 1))'
m_3 == <<" "," "," "," ","(","s","c","a","l","e"," ","(","x","y","z"," ","1"," ","1"," ","1",")",")">>

\* '    (rotate (xyz 0 0 0))'
m_4 == <<" "," "," "," ","(","r","o","t","a","t","e"," ","(","x","y","z"," ","0"," ","0"," ","0",")",")">>

\* '  )'
m_5 == <<" "," ",")">>


----------------------------------------------------------------------------
(* Exceptions: the value of exc when import_all ended by one *)

UnexpectedDevice == "Warning: Unexpected device"
MultipleDevices == "Warning: Multiple devices"
DeviceNotFound == "Warning: not found"

----------------------------------------------------------------------------
(* The scan of the source record.  Indices are 1-based; 0 stands for None, *)
(* and index_end keeps the code's exclusive end (index of the closer + 1).  *)
(* ans is the operator's input stream; k answers of it have been read.      *)

ScanStart(lines) ==
    [i |-> 1, lines |-> lines, index_start |-> 0, index_end |-> 0,
     index_header_start |-> 0, k |-> 0, exc |-> "none", desc |-> <<>>]

\* dcm_attributes when the archive has no .dcm file
default_dcm_attributes(device) ==
    << s_hash, s_hash_sp \o device, s_hash, s_CMP \o device, s_D, s_F, s_ENDCMP >>

\* raise Warning(... + dcm_path.name): without a .dcm file dcm_path is None and the
\* message cannot be built
dcm_raise(dcm_path, w) == IF dcm_path.present THEN w ELSE "AttributeError"

\* one iteration of the loop over dcm_attributes
dcm_scan_line(st, device, ans, dcm_path) ==
    LET attribute == st.lines[st.i]
        nx == [st EXCEPT !.i = @ + 1]
    IN IF st.index_start = 0 THEN
            IF StartsWith(attribute, s_hash) THEN
                IF Strip(attribute) = s_hash /\ st.index_header_start = 0
                THEN [nx EXCEPT !.index_header_start = st.i]
                ELSE nx
            ELSE IF StartsWith(attribute, s_CMP) THEN
                LET component_name == Strip(Drop(attribute, 5))
                IN IF ~StartsWith(component_name, device)
                   THEN [st EXCEPT !.exc = dcm_raise(dcm_path, UnexpectedDevice)]
                   ELSE [nx EXCEPT !.lines[st.i] = Replace1(attribute, component_name, device),
                                   !.index_start = st.i]
            ELSE [nx EXCEPT !.index_header_start = 0]
       ELSE IF st.index_end = 0 THEN
            IF StartsWith(attribute, s_CMP)
            THEN [st EXCEPT !.exc = dcm_raise(dcm_path, MultipleDevices)]
            ELSE IF StartsWith(attribute, s_ENDCMP) THEN [nx EXCEPT !.index_end = st.i + 1]
            ELSE IF StartsWith(attribute, s_D) THEN
                IF st.k >= Len(ans) THEN [st EXCEPT !.exc = "EOFError"]
                ELSE LET reply == ans[st.k + 1]
                         description == IF reply # <<>> THEN reply ELSE Strip(Drop(attribute, 2))
                     IN [nx EXCEPT !.k = @ + 1,
                                   !.desc = Append(@, reply),
                                   !.lines[st.i] = IF description # <<>>
                                                   THEN s_D_sp \o description ELSE attribute]
            ELSE IF StartsWith(attribute, s_F) THEN
                LET datasheet == Strip(Drop(attribute, 2))
                IN [nx EXCEPT !.lines[st.i] = IF datasheet # <<>>
                                              THEN s_F_sp \o datasheet ELSE attribute]
            ELSE nx
       ELSE nx

RECURSIVE dcm_scan_loop(_, _, _, _)
dcm_scan_loop(st, device, ans, dcm_path) ==
    IF st.exc # "none" \/ st.i > Len(st.lines) THEN st
    ELSE dcm_scan_loop(dcm_scan_line(st, device, ans, dcm_path), device, ans, dcm_path)

\* import_dcm up to the raise of 'not found'
dcm_scan(dcm_path, device, ans) ==
    LET dcm_attributes == IF dcm_path.present THEN dcm_path.lines
                          ELSE default_dcm_attributes(device)
        st == dcm_scan_loop(ScanStart(dcm_attributes), device, ans, dcm_path)
    IN IF st.exc = "none" /\ st.index_end = 0
       THEN [st EXCEPT !.exc = dcm_raise(dcm_path, DeviceNotFound)]
       ELSE st

\* one iteration of the loop over lib_lines without the else of lines 392-393: no
\* line clears index_header_start
lib_scan_line_never_clears(st, device, remote_name) ==
    LET line == st.lines[st.i]
        nx == [st EXCEPT !.i = @ + 1]
    IN IF st.index_start = 0 THEN
            IF StartsWith(line, s_hash) THEN
                IF Strip(line) = s_hash /\ st.index_header_start = 0
                THEN [nx EXCEPT !.index_header_start = st.i]
                ELSE nx
            ELSE IF StartsWith(line, s_DEF) THEN
                IF Len(Split(line)) < 2 THEN [st EXCEPT !.exc = "IndexError"]
                ELSE LET component_name == Split(line)[2]
                     IN IF ~StartsWith(component_name, device)
                        THEN [st EXCEPT !.exc = UnexpectedDevice]
                        ELSE [nx EXCEPT !.lines[st.i] = Replace1(line, component_name, device),
                                        !.index_start = st.i]
            ELSE nx
       ELSE IF st.index_end = 0 THEN
            IF StartsWith(line, s_F2) THEN
                IF Len(Split(line)) < 2 THEN [st EXCEPT !.exc = "IndexError"]
                ELSE LET footprint == StripChar(Split(line)[2], "\"")
                     IN [nx EXCEPT !.lines[st.i] =
                            Replace1(line, footprint, remote_name \o s_colon \o footprint)]
            ELSE IF StartsWith(line, s_ENDDEF) THEN [nx EXCEPT !.index_end = st.i + 1]
            ELSE IF StartsWith(line, s_F1) THEN
                [nx EXCEPT !.lines[st.i] = Replace1(line, device, device)]
            ELSE nx
       ELSE IF StartsWith(line, s_DEF) THEN [st EXCEPT !.exc = MultipleDevices]
       ELSE nx

\* one iteration of the loop over lib_lines
lib_scan_line(st, device, remote_name) ==
    LET line == st.lines[st.i]
        nx == [st EXCEPT !.i = @ + 1]
    IN IF st.index_start = 0 THEN
            IF StartsWith(line, s_hash) THEN
                IF Strip(line) = s_hash /\ st.index_header_start = 0
                THEN [nx EXCEPT !.index_header_start = st.i]
                ELSE nx
            ELSE IF StartsWith(line, s_DEF) THEN
                IF Len(Split(line)) < 2 THEN [st EXCEPT !.exc = "IndexError"]
                ELSE LET component_name == Split(line)[2]
                     IN IF ~StartsWith(component_name, device)
                        THEN [st EXCEPT !.exc = UnexpectedDevice]
                        ELSE [nx EXCEPT !.lines[st.i] = Replace1(line, component_name, device),
                                        !.index_start = st.i]
            ELSE [nx EXCEPT !.index_header_start = 0]
       ELSE IF st.index_end = 0 THEN
            IF StartsWith(line, s_F2) THEN
                IF Len(Split(line)) < 2 THEN [st EXCEPT !.exc = "IndexError"]
                ELSE LET footprint == StripChar(Split(line)[2], "\"")
                     IN [nx EXCEPT !.lines[st.i] =
                            Replace1(line, footprint, remote_name \o s_colon \o footprint)]
            ELSE IF StartsWith(line, s_ENDDEF) THEN [nx EXCEPT !.index_end = st.i + 1]
            ELSE IF StartsWith(line, s_F1) THEN
                [nx EXCEPT !.lines[st.i] = Replace1(line, device, device)]
            ELSE nx
       ELSE IF StartsWith(line, s_DEF) THEN [st EXCEPT !.exc = MultipleDevices]
       ELSE nx

RECURSIVE lib_scan_loop(_, _, _)
lib_scan_loop(st, device, remote_name) ==
    IF st.exc # "none" \/ st.i > Len(st.lines) THEN st
    ELSE lib_scan_loop(lib_scan_line(st, device, remote_name), device, remote_name)

\* the scan of import_lib without the raise of lines 406-407
lib_scan_without_raise(lines, device, remote_name) ==
    lib_scan_loop(ScanStart(lines), device, remote_name)

\* import_lib up to the raise of 'not found'
lib_scan(lines, device, remote_name) ==
    LET st == lib_scan_loop(ScanStart(lines), device, remote_name)
    IN IF st.exc = "none" /\ st.index_end = 0 THEN [st EXCEPT !.exc = DeviceNotFound] ELSE st

\* the record without its header block, lines[index_start:index_end]: what the append of
\* C3 would write if it did not carry the header
append_without_header(st) == SubSeq(st.lines, st.index_start, st.index_end - 1)

\* lines[index_start if index_header_start is None else index_header_start : index_end]
record_with_header(st) ==
    SubSeq(st.lines,
           IF st.index_header_start = 0 THEN st.index_start ELSE st.index_header_start,
           st.index_end - 1)

\* the record with its header block: what the overwrite of C4 would write if it carried
\* the source header
overwrite_with_header(st) ==
    SubSeq(st.lines,
           IF st.index_header_start = 0 THEN st.index_start ELSE st.index_header_start,
           st.index_end - 1)

\* lines[index_start:index_end]
record_without_header(st) == SubSeq(st.lines, st.index_start, st.index_end - 1)

----------------------------------------------------------------------------
(* The merge pass: the loop over the lines of the target library file,      *)
(* writing the staging file.  out is what has been written to the staging   *)
(* file; status is "run" inside the loop, "done" after it, "skipped" after  *)
(* the early return, or the exception raised.                               *)

\* the capital letters a string of this module can hold whose small letter it can hold
\* too, in code point order, and their small letters at the same index.  A string of
\* the module holds the characters up to U+00FF, the backquote excepted, and the
\* characters from U+0100 to U+FFFF whose low byte is 0x80 or more.

UpperCase ==
    <<"A", "B", "C", "D", "E", "F", "G", "H", "I", "J", "K", "L", "M", "N", "O", "P",
      "Q", "R", "S", "T", "U", "V", "W", "X", "Y", "Z", "À", "Á", "Â", "Ã", "Ä", "Å",
      "Æ", "Ç", "È", "É", "Ê", "Ë", "Ì", "Í", "Î", "Ï", "Ð", "Ñ", "Ò", "Ó", "Ô", "Õ",
      "Ö", "Ø", "Ù", "Ú", "Û", "Ü", "Ý", "Þ", "Ƃ", "Ƅ", "Ƈ", "Ƌ", "Ǝ", "Ƒ", "Ƙ", "Ơ",
      "Ƣ", "Ƥ", "Ʀ", "Ƨ", "Ʃ", "Ƭ", "Ʈ", "Ư", "Ʊ", "Ʋ", "Ƴ", "Ƶ", "Ʒ", "Ƹ", "Ƽ", "Ǆ",
      "ǅ", "Ǉ", "ǈ", "Ǌ", "ǋ", "Ǎ", "Ǐ", "Ǒ", "Ǔ", "Ǖ", "Ǘ", "Ǚ", "Ǜ", "Ǟ", "Ǡ", "Ǣ",
      "Ǥ", "Ǧ", "Ǩ", "Ǫ", "Ǭ", "Ǯ", "Ǳ", "ǲ", "Ǵ", "Ƕ", "Ƿ", "Ǹ", "Ǻ", "Ǽ", "Ǿ", "Ά",
      "Έ", "Ή", "Ί", "Ό", "Ύ", "Ώ", "Α", "Β", "Γ", "Δ", "Ε", "Ζ", "Η", "Θ", "Ι", "Κ",
      "Λ", "Μ", "Ν", "Ξ", "Ο", "Π", "Ρ", "Τ", "Υ", "Φ", "Χ", "Ψ", "Ω", "Ϊ", "Ϋ", "Ϗ",
      "Ϙ", "Ϛ", "Ϝ", "Ϟ", "Ϡ", "Ϣ", "Ϥ", "Ϧ", "Ϩ", "Ϫ", "Ϭ", "Ϯ", "ϴ", "Ϸ", "Ϲ", "Ϻ",
      "Ҁ", "Ҋ", "Ҍ", "Ҏ", "Ґ", "Ғ", "Ҕ", "Җ", "Ҙ", "Қ", "Ҝ", "Ҟ", "Ҡ", "Ң", "Ҥ", "Ҧ",
      "Ҩ", "Ҫ", "Ҭ", "Ү", "Ұ", "Ҳ", "Ҵ", "Ҷ", "Ҹ", "Һ", "Ҽ", "Ҿ", "Ӏ", "Ӂ", "Ӄ", "Ӆ",
      "Ӈ", "Ӊ", "Ӌ", "Ӎ", "Ӑ", "Ӓ", "Ӕ", "Ӗ", "Ә", "Ӛ", "Ӝ", "Ӟ", "Ӡ", "Ӣ", "Ӥ", "Ӧ",
      "Ө", "Ӫ", "Ӭ", "Ӯ", "Ӱ", "Ӳ", "Ӵ", "Ӷ", "Ӹ", "Ӻ", "Ӽ", "Ӿ", "Ꮀ", "Ꮁ", "Ꮂ", "Ꮃ",
      "Ꮄ", "Ꮅ", "Ꮆ", "Ꮇ", "Ꮈ", "Ꮉ", "Ꮊ", "Ꮋ", "Ꮌ", "Ꮍ", "Ꮎ", "Ꮏ", "Ꮐ", "Ꮑ", "Ꮒ", "Ꮓ",
      "Ꮔ", "Ꮕ", "Ꮖ", "Ꮗ", "Ꮘ", "Ꮙ", "Ꮚ", "Ꮛ", "Ꮜ", "Ꮝ", "Ꮞ", "Ꮟ", "Ꮠ", "Ꮡ", "Ꮢ", "Ꮣ",
      "Ꮤ", "Ꮥ", "Ꮦ", "Ꮧ", "Ꮨ", "Ꮩ", "Ꮪ", "Ꮫ", "Ꮬ", "Ꮭ", "Ꮮ", "Ꮯ", "Ꮰ", "Ꮱ", "Ꮲ", "Ꮳ",
      "Ꮴ", "Ꮵ", "Ꮶ", "Ꮷ", "Ꮸ", "Ꮹ", "Ꮺ", "Ꮻ", "Ꮼ", "Ꮽ", "Ꮾ", "Ꮿ", "Ᏸ", "Ᏹ", "Ᏺ", "Ᏻ",
      "Ᏼ", "Ᏽ", "Ა", "Ბ", "Გ", "Დ", "Ე", "Ვ", "Ზ", "Თ", "Ი", "Კ", "Ლ", "Მ", "Ნ", "Ო",
      "Პ", "Ჟ", "Რ", "Ს", "Ტ", "Უ", "Ფ", "Ქ", "Ღ", "Ყ", "Შ", "Ჩ", "Ც", "Ძ", "Წ", "Ჭ",
      "Ხ", "Ჯ", "Ჰ", "Ჱ", "Ჲ", "Ჳ", "Ჴ", "Ჵ", "Ჶ", "Ჷ", "Ჸ", "Ჹ", "Ჺ", "Ჽ", "Ჾ", "Ჿ",
      "Ẁ", "Ẃ", "Ẅ", "Ẇ", "Ẉ", "Ẋ", "Ẍ", "Ẏ", "Ẑ", "Ẓ", "Ẕ", "ẞ", "Ạ", "Ả", "Ấ", "Ầ",
      "Ẩ", "Ẫ", "Ậ", "Ắ", "Ằ", "Ẳ", "Ẵ", "Ặ", "Ẹ", "Ẻ", "Ẽ", "Ế", "Ề", "Ể", "Ễ", "Ệ",
      "Ỉ", "Ị", "Ọ", "Ỏ", "Ố", "Ồ", "Ổ", "Ỗ", "Ộ", "Ớ", "Ờ", "Ở", "Ỡ", "Ợ", "Ụ", "Ủ",
      "Ứ", "Ừ", "Ử", "Ữ", "Ự", "Ỳ", "Ỵ", "Ỷ", "Ỹ", "Ỻ", "Ỽ", "Ỿ", "ᾈ", "ᾉ", "ᾊ", "ᾋ",
      "ᾌ", "ᾍ", "ᾎ", "ᾏ", "ᾘ", "ᾙ", "ᾚ", "ᾛ", "ᾜ", "ᾝ", "ᾞ", "ᾟ", "ᾨ", "ᾩ", "ᾪ", "ᾫ",
      "ᾬ", "ᾭ", "ᾮ", "ᾯ", "Ᾰ", "Ᾱ", "ᾼ", "ῌ", "Ῐ", "Ῑ", "Ῠ", "Ῡ", "Ῥ", "ῼ", "Ↄ", "Ⓐ",
      "Ⓑ", "Ⓒ", "Ⓓ", "Ⓔ", "Ⓕ", "Ⓖ", "Ⓗ", "Ⓘ", "Ⓙ", "Ⓚ", "Ⓛ", "Ⓜ", "Ⓝ", "Ⓞ", "Ⓟ", "Ⓠ",
      "Ⓡ", "Ⓢ", "Ⓣ", "Ⓤ", "Ⓥ", "Ⓦ", "Ⓧ", "Ⓨ", "Ⓩ", "Ⲁ", "Ⲃ", "Ⲅ", "Ⲇ", "Ⲉ", "Ⲋ", "Ⲍ",
      "Ⲏ", "Ⲑ", "Ⲓ", "Ⲕ", "Ⲗ", "Ⲙ", "Ⲛ", "Ⲝ", "Ⲟ", "Ⲡ", "Ⲣ", "Ⲥ", "Ⲧ", "Ⲩ", "Ⲫ", "Ⲭ",
      "Ⲯ", "Ⲱ", "Ⲳ", "Ⲵ", "Ⲷ", "Ⲹ", "Ⲻ", "Ⲽ", "Ⲿ", "Ⳁ", "Ⳃ", "Ⳅ", "Ⳇ", "Ⳉ", "Ⳋ", "Ⳍ",
      "Ⳏ", "Ⳑ", "Ⳓ", "Ⳕ", "Ⳗ", "Ⳙ", "Ⳛ", "Ⳝ", "Ⳟ", "Ⳡ", "Ⳣ", "Ⳬ", "Ⳮ", "Ⳳ", "Ꚁ", "Ꚃ",
      "Ꚅ", "Ꚇ", "Ꚉ", "Ꚋ", "Ꚍ", "Ꚏ", "Ꚑ", "Ꚓ", "Ꚕ", "Ꚗ", "Ꚙ", "Ꚛ", "Ꞁ", "Ꞃ", "Ꞅ", "Ꞇ",
      "Ꞌ", "Ꞑ", "Ꞓ", "Ꞗ", "Ꞙ", "Ꞛ", "Ꞝ", "Ꞟ", "Ꞡ", "Ꞣ", "Ꞥ", "Ꞧ", "Ꞩ", "Ʞ", "Ʇ", "Ʝ",
      "Ꞵ", "Ꞷ", "Ꞹ", "Ꞻ", "Ꞽ", "Ꞿ", "Ꟁ", "Ꟃ", "Ꞔ", "Ʂ", "Ᶎ", "Ꟈ", "Ꟊ", "Ꟑ", "Ꟗ", "Ꟙ",
      "Ꟶ">>

LowerCase ==
    <<"a", "b", "c", "d", "e", "f", "g", "h", "i", "j", "k", "l", "m", "n", "o", "p",
      "q", "r", "s", "t", "u", "v", "w", "x", "y", "z", "à", "á", "â", "ã", "ä", "å",
      "æ", "ç", "è", "é", "ê", "ë", "ì", "í", "î", "ï", "ð", "ñ", "ò", "ó", "ô", "õ",
      "ö", "ø", "ù", "ú", "û", "ü", "ý", "þ", "ƃ", "ƅ", "ƈ", "ƌ", "ǝ", "ƒ", "ƙ", "ơ",
      "ƣ", "ƥ", "ʀ", "ƨ", "ʃ", "ƭ", "ʈ", "ư", "ʊ", "ʋ", "ƴ", "ƶ", "ʒ", "ƹ", "ƽ", "ǆ",
      "ǆ", "ǉ", "ǉ", "ǌ", "ǌ", "ǎ", "ǐ", "ǒ", "ǔ", "ǖ", "ǘ", "ǚ", "ǜ", "ǟ", "ǡ", "ǣ",
      "ǥ", "ǧ", "ǩ", "ǫ", "ǭ", "ǯ", "ǳ", "ǳ", "ǵ", "ƕ", "ƿ", "ǹ", "ǻ", "ǽ", "ǿ", "ά",
      "έ", "ή", "ί", "ό", "ύ", "ώ", "α", "β", "γ", "δ", "ε", "ζ", "η", "θ", "ι", "κ",
      "λ", "μ", "ν", "ξ", "ο", "π", "ρ", "τ", "υ", "φ", "χ", "ψ", "ω", "ϊ", "ϋ", "ϗ",
      "ϙ", "ϛ", "ϝ", "ϟ", "ϡ", "ϣ", "ϥ", "ϧ", "ϩ", "ϫ", "ϭ", "ϯ", "θ", "ϸ", "ϲ", "ϻ",
      "ҁ", "ҋ", "ҍ", "ҏ", "ґ", "ғ", "ҕ", "җ", "ҙ", "қ", "ҝ", "ҟ", "ҡ", "ң", "ҥ", "ҧ",
      "ҩ", "ҫ", "ҭ", "ү", "ұ", "ҳ", "ҵ", "ҷ", "ҹ", "һ", "ҽ", "ҿ", "ӏ", "ӂ", "ӄ", "ӆ",
      "ӈ", "ӊ", "ӌ", "ӎ", "ӑ", "ӓ", "ӕ", "ӗ", "ә", "ӛ", "ӝ", "ӟ", "ӡ", "ӣ", "ӥ", "ӧ",
      "ө", "ӫ", "ӭ", "ӯ", "ӱ", "ӳ", "ӵ", "ӷ", "ӹ", "ӻ", "ӽ", "ӿ", "ꮀ", "ꮁ", "ꮂ", "ꮃ",
      "ꮄ", "ꮅ", "ꮆ", "ꮇ", "ꮈ", "ꮉ", "ꮊ", "ꮋ", "ꮌ", "ꮍ", "ꮎ", "ꮏ", "ꮐ", "ꮑ", "ꮒ", "ꮓ",
      "ꮔ", "ꮕ", "ꮖ", "ꮗ", "ꮘ", "ꮙ", "ꮚ", "ꮛ", "ꮜ", "ꮝ", "ꮞ", "ꮟ", "ꮠ", "ꮡ", "ꮢ", "ꮣ",
      "ꮤ", "ꮥ", "ꮦ", "ꮧ", "ꮨ", "ꮩ", "ꮪ", "ꮫ", "ꮬ", "ꮭ", "ꮮ", "ꮯ", "ꮰ", "ꮱ", "ꮲ", "ꮳ",
      "ꮴ", "ꮵ", "ꮶ", "ꮷ", "ꮸ", "ꮹ", "ꮺ", "ꮻ", "ꮼ", "ꮽ", "ꮾ", "ꮿ", "ᏸ", "ᏹ", "ᏺ", "ᏻ",
      "ᏼ", "ᏽ", "ა", "ბ", "გ", "დ", "ე", "ვ", "ზ", "თ", "ი", "კ", "ლ", "მ", "ნ", "ო",
      "პ", "ჟ", "რ", "ს", "ტ", "უ", "ფ", "ქ", "ღ", "ყ", "შ", "ჩ", "ც", "ძ", "წ", "ჭ",
      "ხ", "ჯ", "ჰ", "ჱ", "ჲ", "ჳ", "ჴ", "ჵ", "ჶ", "ჷ", "ჸ", "ჹ", "ჺ", "ჽ", "ჾ", "ჿ",
      "ẁ", "ẃ", "ẅ", "ẇ", "ẉ", "ẋ", "ẍ", "ẏ", "ẑ", "ẓ", "ẕ", "ß", "ạ", "ả", "ấ", "ầ",
      "ẩ", "ẫ", "ậ", "ắ", "ằ", "ẳ", "ẵ", "ặ", "ẹ", "ẻ", "ẽ", "ế", "ề", "ể", "ễ", "ệ",
      "ỉ", "ị", "ọ", "ỏ", "ố", "ồ", "ổ", "ỗ", "ộ", "ớ", "ờ", "ở", "ỡ", "ợ", "ụ", "ủ",
      "ứ", "ừ", "ử", "ữ", "ự", "ỳ", "ỵ", "ỷ", "ỹ", "ỻ", "ỽ", "ỿ", "ᾀ", "ᾁ", "ᾂ", "ᾃ",
      "ᾄ", "ᾅ", "ᾆ", "ᾇ", "ᾐ", "ᾑ", "ᾒ", "ᾓ", "ᾔ", "ᾕ", "ᾖ", "ᾗ", "ᾠ", "ᾡ", "ᾢ", "ᾣ",
      "ᾤ", "ᾥ", "ᾦ", "ᾧ", "ᾰ", "ᾱ", "ᾳ", "ῃ", "ῐ", "ῑ", "ῠ", "ῡ", "ῥ", "ῳ", "ↄ", "ⓐ",
      "ⓑ", "ⓒ", "ⓓ", "ⓔ", "ⓕ", "ⓖ", "ⓗ", "ⓘ", "ⓙ", "ⓚ", "ⓛ", "ⓜ", "ⓝ", "ⓞ", "ⓟ", "ⓠ",
      "ⓡ", "ⓢ", "ⓣ", "ⓤ", "ⓥ", "ⓦ", "ⓧ", "ⓨ", "ⓩ", "ⲁ", "ⲃ", "ⲅ", "ⲇ", "ⲉ", "ⲋ", "ⲍ",
      "ⲏ", "ⲑ", "ⲓ", "ⲕ", "ⲗ", "ⲙ", "ⲛ", "ⲝ", "ⲟ", "ⲡ", "ⲣ", "ⲥ", "ⲧ", "ⲩ", "ⲫ", "ⲭ",
      "ⲯ", "ⲱ", "ⲳ", "ⲵ", "ⲷ", "ⲹ", "ⲻ", "ⲽ", "ⲿ", "ⳁ", "ⳃ", "ⳅ", "ⳇ", "ⳉ", "ⳋ", "ⳍ",
      "ⳏ", "ⳑ", "ⳓ", "ⳕ", "ⳗ", "ⳙ", "ⳛ", "ⳝ", "ⳟ", "ⳡ", "ⳣ", "ⳬ", "ⳮ", "ⳳ", "ꚁ", "ꚃ",
      "ꚅ", "ꚇ", "ꚉ", "ꚋ", "ꚍ", "ꚏ", "ꚑ", "ꚓ", "ꚕ", "ꚗ", "ꚙ", "ꚛ", "ꞁ", "ꞃ", "ꞅ", "ꞇ",
      "ꞌ", "ꞑ", "ꞓ", "ꞗ", "ꞙ", "ꞛ", "ꞝ", "ꞟ", "ꞡ", "ꞣ", "ꞥ", "ꞧ", "ꞩ", "ʞ", "ʇ", "ʝ",
      "ꞵ", "ꞷ", "ꞹ", "ꞻ", "ꞽ", "ꞿ", "ꟁ", "ꟃ", "ꞔ", "ʂ", "ᶎ", "ꟈ", "ꟊ", "ꟑ", "ꟗ", "ꟙ",
      "ꟶ">>

\* the capital letters a string of this module can hold whose small letter it cannot
\* hold: lower() of these has no value here

UpperCaseOnly ==
    {"Ɓ", "Ɔ", "Ɖ", "Ɗ", "Ə", "Ɛ", "Ɠ", "Ɣ", "Ɩ", "Ɨ", "Ɯ", "Ɲ", "Ɵ", "Ͻ", "Ͼ", "Ͽ",
     "Ⴀ", "Ⴁ", "Ⴂ", "Ⴃ", "Ⴄ", "Ⴅ", "Ⴆ", "Ⴇ", "Ⴈ", "Ⴉ", "Ⴊ", "Ⴋ", "Ⴌ", "Ⴍ", "Ⴎ", "Ⴏ",
     "Ⴐ", "Ⴑ", "Ⴒ", "Ⴓ", "Ⴔ", "Ⴕ", "Ⴖ", "Ⴗ", "Ⴘ", "Ⴙ", "Ⴚ", "Ⴛ", "Ⴜ", "Ⴝ", "Ⴞ", "Ⴟ",
     "Ⴠ", "Ⴡ", "Ⴢ", "Ⴣ", "Ⴤ", "Ⴥ", "Ⴧ", "Ⴭ", "Ꭰ", "Ꭱ", "Ꭲ", "Ꭳ", "Ꭴ", "Ꭵ", "Ꭶ", "Ꭷ",
     "Ꭸ", "Ꭹ", "Ꭺ", "Ꭻ", "Ꭼ", "Ꭽ", "Ꭾ", "Ꭿ", "Ὰ", "Ά", "Ὲ", "Έ", "Ὴ", "Ή", "Ὶ", "Ί",
     "Ὺ", "Ύ", "Ὸ", "Ό", "Ὼ", "Ώ", "Ɥ", "Ɦ", "Ɜ", "Ɡ", "Ɬ", "Ɪ", "Ꭓ"}

\* the cased characters that are not case-ignorable, and the case-ignorable
\* characters, as lower() classifies the neighbours of a capital sigma

Cased ==
    {"A", "B", "C", "D", "E", "F", "G", "H", "I", "J", "K", "L", "M", "N", "O", "P",
     "Q", "R", "S", "T", "U", "V", "W", "X", "Y", "Z", "a", "b", "c", "d", "e", "f",
     "g", "h", "i", "j", "k", "l", "m", "n", "o", "p", "q", "r", "s", "t", "u", "v",
     "w", "x", "y", "z", "ª", "µ", "º", "À", "Á", "Â", "Ã", "Ä", "Å", "Æ", "Ç", "È",
     "É", "Ê", "Ë", "Ì", "Í", "Î", "Ï", "Ð", "Ñ", "Ò", "Ó", "Ô", "Õ", "Ö", "Ø", "Ù",
     "Ú", "Û", "Ü", "Ý", "Þ", "ß", "à", "á", "â", "ã", "ä", "å", "æ", "ç", "è", "é",
     "ê", "ë", "ì", "í", "î", "ï", "ð", "ñ", "ò", "ó", "ô", "õ", "ö", "ø", "ù", "ú",
     "û", "ü", "ý", "þ", "ÿ", "ƀ", "Ɓ", "Ƃ", "ƃ", "Ƅ", "ƅ", "Ɔ", "Ƈ", "ƈ", "Ɖ", "Ɗ",
     "Ƌ", "ƌ", "ƍ", "Ǝ", "Ə", "Ɛ", "Ƒ", "ƒ", "Ɠ", "Ɣ", "ƕ", "Ɩ", "Ɨ", "Ƙ", "ƙ", "ƚ",
     "ƛ", "Ɯ", "Ɲ", "ƞ", "Ɵ", "Ơ", "ơ", "Ƣ", "ƣ", "Ƥ", "ƥ", "Ʀ", "Ƨ", "ƨ", "Ʃ", "ƪ",
     "ƫ", "Ƭ", "ƭ", "Ʈ", "Ư", "ư", "Ʊ", "Ʋ", "Ƴ", "ƴ", "Ƶ", "ƶ", "Ʒ", "Ƹ", "ƹ", "ƺ",
     "Ƽ", "ƽ", "ƾ", "ƿ", "Ǆ", "ǅ", "ǆ", "Ǉ", "ǈ", "ǉ", "Ǌ", "ǋ", "ǌ", "Ǎ", "ǎ", "Ǐ",
     "ǐ", "Ǒ", "ǒ", "Ǔ", "ǔ", "Ǖ", "ǖ", "Ǘ", "ǘ", "Ǚ", "ǚ", "Ǜ", "ǜ", "ǝ", "Ǟ", "ǟ",
     "Ǡ", "ǡ", "Ǣ", "ǣ", "Ǥ", "ǥ", "Ǧ", "ǧ", "Ǩ", "ǩ", "Ǫ", "ǫ", "Ǭ", "ǭ", "Ǯ", "ǯ",
     "ǰ", "Ǳ", "ǲ", "ǳ", "Ǵ", "ǵ", "Ƕ", "Ƿ", "Ǹ", "ǹ", "Ǻ", "ǻ", "Ǽ", "ǽ", "Ǿ", "ǿ",
     "ʀ", "ʁ", "ʂ", "ʃ", "ʄ", "ʅ", "ʆ", "ʇ", "ʈ", "ʉ", "ʊ", "ʋ", "ʌ", "ʍ", "ʎ", "ʏ",
     "ʐ", "ʑ", "ʒ", "ʓ", "ʕ", "ʖ", "ʗ", "ʘ", "ʙ", "ʚ", "ʛ", "ʜ", "ʝ", "ʞ", "ʟ", "ʠ",
     "ʡ", "ʢ", "ʣ", "ʤ", "ʥ", "ʦ", "ʧ", "ʨ", "ʩ", "ʪ", "ʫ", "ʬ", "ʭ", "ʮ", "ʯ", "Ά",
     "Έ", "Ή", "Ί", "Ό", "Ύ", "Ώ", "ΐ", "Α", "Β", "Γ", "Δ", "Ε", "Ζ", "Η", "Θ", "Ι",
     "Κ", "Λ", "Μ", "Ν", "Ξ", "Ο", "Π", "Ρ", "Σ", "Τ", "Υ", "Φ", "Χ", "Ψ", "Ω", "Ϊ",
     "Ϋ", "ά", "έ", "ή", "ί", "ΰ", "α", "β", "γ", "δ", "ε", "ζ", "η", "θ", "ι", "κ",
     "λ", "μ", "ν", "ξ", "ο", "π", "ρ", "ς", "σ", "τ", "υ", "φ", "χ", "ψ", "ω", "ϊ",
     "ϋ", "ό", "ύ", "ώ", "Ϗ", "ϐ", "ϑ", "ϒ", "ϓ", "ϔ", "ϕ", "ϖ", "ϗ", "Ϙ", "ϙ", "Ϛ",
     "ϛ", "Ϝ", "ϝ", "Ϟ", "ϟ", "Ϡ", "ϡ", "Ϣ", "ϣ", "Ϥ", "ϥ", "Ϧ", "ϧ", "Ϩ", "ϩ", "Ϫ",
     "ϫ", "Ϭ", "ϭ", "Ϯ", "ϯ", "ϰ", "ϱ", "ϲ", "ϳ", "ϴ", "ϵ", "Ϸ", "ϸ", "Ϲ", "Ϻ", "ϻ",
     "ϼ", "Ͻ", "Ͼ", "Ͽ", "Ҁ", "ҁ", "Ҋ", "ҋ", "Ҍ", "ҍ", "Ҏ", "ҏ", "Ґ", "ґ", "Ғ", "ғ",
     "Ҕ", "ҕ", "Җ", "җ", "Ҙ", "ҙ", "Қ", "қ", "Ҝ", "ҝ", "Ҟ", "ҟ", "Ҡ", "ҡ", "Ң", "ң",
     "Ҥ", "ҥ", "Ҧ", "ҧ", "Ҩ", "ҩ", "Ҫ", "ҫ", "Ҭ", "ҭ", "Ү", "ү", "Ұ", "ұ", "Ҳ", "ҳ",
     "Ҵ", "ҵ", "Ҷ", "ҷ", "Ҹ", "ҹ", "Һ", "һ", "Ҽ", "ҽ", "Ҿ", "ҿ", "Ӏ", "Ӂ", "ӂ", "Ӄ",
     "ӄ", "Ӆ", "ӆ", "Ӈ", "ӈ", "Ӊ", "ӊ", "Ӌ", "ӌ", "Ӎ", "ӎ", "ӏ", "Ӑ", "ӑ", "Ӓ", "ӓ",
     "Ӕ", "ӕ", "Ӗ", "ӗ", "Ә", "ә", "Ӛ", "ӛ", "Ӝ", "ӝ", "Ӟ", "ӟ", "Ӡ", "ӡ", "Ӣ", "ӣ",
     "Ӥ", "ӥ", "Ӧ", "ӧ", "Ө", "ө", "Ӫ", "ӫ", "Ӭ", "ӭ", "Ӯ", "ӯ", "Ӱ", "ӱ", "Ӳ", "ӳ",
     "Ӵ", "ӵ", "Ӷ", "ӷ", "Ӹ", "ӹ", "Ӻ", "ӻ", "Ӽ", "ӽ", "Ӿ", "ӿ", "ր", "ց", "ւ", "փ",
     "ք", "օ", "ֆ", "և", "ֈ", "Ⴀ", "Ⴁ", "Ⴂ", "Ⴃ", "Ⴄ", "Ⴅ", "Ⴆ", "Ⴇ", "Ⴈ", "Ⴉ", "Ⴊ",
     "Ⴋ", "Ⴌ", "Ⴍ", "Ⴎ", "Ⴏ", "Ⴐ", "Ⴑ", "Ⴒ", "Ⴓ", "Ⴔ", "Ⴕ", "Ⴖ", "Ⴗ", "Ⴘ", "Ⴙ", "Ⴚ",
     "Ⴛ", "Ⴜ", "Ⴝ", "Ⴞ", "Ⴟ", "Ⴠ", "Ⴡ", "Ⴢ", "Ⴣ", "Ⴤ", "Ⴥ", "Ⴧ", "Ⴭ", "ა", "ბ", "გ",
     "დ", "ე", "ვ", "ზ", "თ", "ი", "კ", "ლ", "მ", "ნ", "ო", "პ", "ჟ", "რ", "ს", "ტ",
     "უ", "ფ", "ქ", "ღ", "ყ", "შ", "ჩ", "ც", "ძ", "წ", "ჭ", "ხ", "ჯ", "ჰ", "ჱ", "ჲ",
     "ჳ", "ჴ", "ჵ", "ჶ", "ჷ", "ჸ", "ჹ", "ჺ", "ჽ", "ჾ", "ჿ", "Ꭰ", "Ꭱ", "Ꭲ", "Ꭳ", "Ꭴ",
     "Ꭵ", "Ꭶ", "Ꭷ", "Ꭸ", "Ꭹ", "Ꭺ", "Ꭻ", "Ꭼ", "Ꭽ", "Ꭾ", "Ꭿ", "Ꮀ", "Ꮁ", "Ꮂ", "Ꮃ", "Ꮄ",
     "Ꮅ", "Ꮆ", "Ꮇ", "Ꮈ", "Ꮉ", "Ꮊ", "Ꮋ", "Ꮌ", "Ꮍ", "Ꮎ", "Ꮏ", "Ꮐ", "Ꮑ", "Ꮒ", "Ꮓ", "Ꮔ",
     "Ꮕ", "Ꮖ", "Ꮗ", "Ꮘ", "Ꮙ", "Ꮚ", "Ꮛ", "Ꮜ", "Ꮝ", "Ꮞ", "Ꮟ", "Ꮠ", "Ꮡ", "Ꮢ", "Ꮣ", "Ꮤ",
     "Ꮥ", "Ꮦ", "Ꮧ", "Ꮨ", "Ꮩ", "Ꮪ", "Ꮫ", "Ꮬ", "Ꮭ", "Ꮮ", "Ꮯ", "Ꮰ", "Ꮱ", "Ꮲ", "Ꮳ", "Ꮴ",
     "Ꮵ", "Ꮶ", "Ꮷ", "Ꮸ", "Ꮹ", "Ꮺ", "Ꮻ", "Ꮼ", "Ꮽ", "Ꮾ", "Ꮿ", "Ᏸ", "Ᏹ", "Ᏺ", "Ᏻ", "Ᏼ",
     "Ᏽ", "ᏸ", "ᏹ", "ᏺ", "ᏻ", "ᏼ", "ᏽ", "ᲀ", "ᲁ", "ᲂ", "ᲃ", "ᲄ", "ᲅ", "ᲆ", "ᲇ", "ᲈ",
     "Ა", "Ბ", "Გ", "Დ", "Ე", "Ვ", "Ზ", "Თ", "Ი", "Კ", "Ლ", "Მ", "Ნ", "Ო", "Პ", "Ჟ",
     "Რ", "Ს", "Ტ", "Უ", "Ფ", "Ქ", "Ღ", "Ყ", "Შ", "Ჩ", "Ც", "Ძ", "Წ", "Ჭ", "Ხ", "Ჯ",
     "Ჰ", "Ჱ", "Ჲ", "Ჳ", "Ჴ", "Ჵ", "Ჶ", "Ჷ", "Ჸ", "Ჹ", "Ჺ", "Ჽ", "Ჾ", "Ჿ", "ᶀ", "ᶁ",
     "ᶂ", "ᶃ", "ᶄ", "ᶅ", "ᶆ", "ᶇ", "ᶈ", "ᶉ", "ᶊ", "ᶋ", "ᶌ", "ᶍ", "ᶎ", "ᶏ", "ᶐ", "ᶑ",
     "ᶒ", "ᶓ", "ᶔ", "ᶕ", "ᶖ", "ᶗ", "ᶘ", "ᶙ", "ᶚ", "Ẁ", "ẁ", "Ẃ", "ẃ", "Ẅ", "ẅ", "Ẇ",
     "ẇ", "Ẉ", "ẉ", "Ẋ", "ẋ", "Ẍ", "ẍ", "Ẏ", "ẏ", "Ẑ", "ẑ", "Ẓ", "ẓ", "Ẕ", "ẕ", "ẖ",
     "ẗ", "ẘ", "ẙ", "ẚ", "ẛ", "ẜ", "ẝ", "ẞ", "ẟ", "Ạ", "ạ", "Ả", "ả", "Ấ", "ấ", "Ầ",
     "ầ", "Ẩ", "ẩ", "Ẫ", "ẫ", "Ậ", "ậ", "Ắ", "ắ", "Ằ", "ằ", "Ẳ", "ẳ", "Ẵ", "ẵ", "Ặ",
     "ặ", "Ẹ", "ẹ", "Ẻ", "ẻ", "Ẽ", "ẽ", "Ế", "ế", "Ề", "ề", "Ể", "ể", "Ễ", "ễ", "Ệ",
     "ệ", "Ỉ", "ỉ", "Ị", "ị", "Ọ", "ọ", "Ỏ", "ỏ", "Ố", "ố", "Ồ", "ồ", "Ổ", "ổ", "Ỗ",
     "ỗ", "Ộ", "ộ", "Ớ", "ớ", "Ờ", "ờ", "Ở", "ở", "Ỡ", "ỡ", "Ợ", "ợ", "Ụ", "ụ", "Ủ",
     "ủ", "Ứ", "ứ", "Ừ", "ừ", "Ử", "ử", "Ữ", "ữ", "Ự", "ự", "Ỳ", "ỳ", "Ỵ", "ỵ", "Ỷ",
     "ỷ", "Ỹ", "ỹ", "Ỻ", "ỻ", "Ỽ", "ỽ", "Ỿ", "ỿ", "ᾀ", "ᾁ", "ᾂ", "ᾃ", "ᾄ", "ᾅ", "ᾆ",
     "ᾇ", "ᾈ", "ᾉ", "ᾊ", "ᾋ", "ᾌ", "ᾍ", "ᾎ", "ᾏ", "ᾐ", "ᾑ", "ᾒ", "ᾓ", "ᾔ", "ᾕ", "ᾖ",
     "ᾗ", "ᾘ", "ᾙ", "ᾚ", "ᾛ", "ᾜ", "ᾝ", "ᾞ", "ᾟ", "ᾠ", "ᾡ", "ᾢ", "ᾣ", "ᾤ", "ᾥ", "ᾦ",
     "ᾧ", "ᾨ", "ᾩ", "ᾪ", "ᾫ", "ᾬ", "ᾭ", "ᾮ", "ᾯ", "ᾰ", "ᾱ", "ᾲ", "ᾳ", "ᾴ", "ᾶ", "ᾷ",
     "Ᾰ", "Ᾱ", "Ὰ", "Ά", "ᾼ", "ι", "ῂ", "ῃ", "ῄ", "ῆ", "ῇ", "Ὲ", "Έ", "Ὴ", "Ή", "ῌ",
     "ῐ", "ῑ", "ῒ", "ΐ", "ῖ", "ῗ", "Ῐ", "Ῑ", "Ὶ", "Ί", "ῠ", "ῡ", "ῢ", "ΰ", "ῤ", "ῥ",
     "ῦ", "ῧ", "Ῠ", "Ῡ", "Ὺ", "Ύ", "Ῥ", "ῲ", "ῳ", "ῴ", "ῶ", "ῷ", "Ὸ", "Ό", "Ὼ", "Ώ",
     "ῼ", "Ↄ", "ↄ", "Ⓐ", "Ⓑ", "Ⓒ", "Ⓓ", "Ⓔ", "Ⓕ", "Ⓖ", "Ⓗ", "Ⓘ", "Ⓙ", "Ⓚ", "Ⓛ", "Ⓜ",
     "Ⓝ", "Ⓞ", "Ⓟ", "Ⓠ", "Ⓡ", "Ⓢ", "Ⓣ", "Ⓤ", "Ⓥ", "Ⓦ", "Ⓧ", "Ⓨ", "Ⓩ", "ⓐ", "ⓑ", "ⓒ",
     "ⓓ", "ⓔ", "ⓕ", "ⓖ", "ⓗ", "ⓘ", "ⓙ", "ⓚ", "ⓛ", "ⓜ", "ⓝ", "ⓞ", "ⓟ", "ⓠ", "ⓡ", "ⓢ",
     "ⓣ", "ⓤ", "ⓥ", "ⓦ", "ⓧ", "ⓨ", "ⓩ", "Ⲁ", "ⲁ", "Ⲃ", "ⲃ", "Ⲅ", "ⲅ", "Ⲇ", "ⲇ", "Ⲉ",
     "ⲉ", "Ⲋ", "ⲋ", "Ⲍ", "ⲍ", "Ⲏ", "ⲏ", "Ⲑ", "ⲑ", "Ⲓ", "ⲓ", "Ⲕ", "ⲕ", "Ⲗ", "ⲗ", "Ⲙ",
     "ⲙ", "Ⲛ", "ⲛ", "Ⲝ", "ⲝ", "Ⲟ", "ⲟ", "Ⲡ", "ⲡ", "Ⲣ", "ⲣ", "Ⲥ", "ⲥ", "Ⲧ", "ⲧ", "Ⲩ",
     "ⲩ", "Ⲫ", "ⲫ", "Ⲭ", "ⲭ", "Ⲯ", "ⲯ", "Ⲱ", "ⲱ", "Ⲳ", "ⲳ", "Ⲵ", "ⲵ", "Ⲷ", "ⲷ", "Ⲹ",
     "ⲹ", "Ⲻ", "ⲻ", "Ⲽ", "ⲽ", "Ⲿ", "ⲿ", "Ⳁ", "ⳁ", "Ⳃ", "ⳃ", "Ⳅ", "ⳅ", "Ⳇ", "ⳇ", "Ⳉ",
     "ⳉ", "Ⳋ", "ⳋ", "Ⳍ", "ⳍ", "Ⳏ", "ⳏ", "Ⳑ", "ⳑ", "Ⳓ", "ⳓ", "Ⳕ", "ⳕ", "Ⳗ", "ⳗ", "Ⳙ",
     "ⳙ", "Ⳛ", "ⳛ", "Ⳝ", "ⳝ", "Ⳟ", "ⳟ", "Ⳡ", "ⳡ", "Ⳣ", "ⳣ", "ⳤ", "Ⳬ", "ⳬ", "Ⳮ", "ⳮ",
     "Ⳳ", "ⳳ", "Ꚁ", "ꚁ", "Ꚃ", "ꚃ", "Ꚅ", "ꚅ", "Ꚇ", "ꚇ", "Ꚉ", "ꚉ", "Ꚋ", "ꚋ", "Ꚍ", "ꚍ",
     "Ꚏ", "ꚏ", "Ꚑ", "ꚑ", "Ꚓ", "ꚓ", "Ꚕ", "ꚕ", "Ꚗ", "ꚗ", "Ꚙ", "ꚙ", "Ꚛ", "ꚛ", "Ꞁ", "ꞁ",
     "Ꞃ", "ꞃ", "Ꞅ", "ꞅ", "Ꞇ", "ꞇ", "Ꞌ", "ꞌ", "Ɥ", "ꞎ", "Ꞑ", "ꞑ", "Ꞓ", "ꞓ", "ꞔ", "ꞕ",
     "Ꞗ", "ꞗ", "Ꞙ", "ꞙ", "Ꞛ", "ꞛ", "Ꞝ", "ꞝ", "Ꞟ", "ꞟ", "Ꞡ", "ꞡ", "Ꞣ", "ꞣ", "Ꞥ", "ꞥ",
     "Ꞧ", "ꞧ", "Ꞩ", "ꞩ", "Ɦ", "Ɜ", "Ɡ", "Ɬ", "Ɪ", "ꞯ", "Ʞ", "Ʇ", "Ʝ", "Ꭓ", "Ꞵ", "ꞵ",
     "Ꞷ", "ꞷ", "Ꞹ", "ꞹ", "Ꞻ", "ꞻ", "Ꞽ", "ꞽ", "Ꞿ", "ꞿ", "Ꟁ", "ꟁ", "Ꟃ", "ꟃ", "Ꞔ", "Ʂ",
     "Ᶎ", "Ꟈ", "ꟈ", "Ꟊ", "ꟊ", "Ꟑ", "ꟑ", "ꟓ", "ꟕ", "Ꟗ", "ꟗ", "Ꟙ", "ꟙ", "Ꟶ", "ꟶ", "ꟺ",
     "ꮀ", "ꮁ", "ꮂ", "ꮃ", "ꮄ", "ꮅ", "ꮆ", "ꮇ", "ꮈ", "ꮉ", "ꮊ", "ꮋ", "ꮌ", "ꮍ", "ꮎ", "ꮏ",
     "ꮐ", "ꮑ", "ꮒ", "ꮓ", "ꮔ", "ꮕ", "ꮖ", "ꮗ", "ꮘ", "ꮙ", "ꮚ", "ꮛ", "ꮜ", "ꮝ", "ꮞ", "ꮟ",
     "ꮠ", "ꮡ", "ꮢ", "ꮣ", "ꮤ", "ꮥ", "ꮦ", "ꮧ", "ꮨ", "ꮩ", "ꮪ", "ꮫ", "ꮬ", "ꮭ", "ꮮ", "ꮯ",
     "ꮰ", "ꮱ", "ꮲ", "ꮳ", "ꮴ", "ꮵ", "ꮶ", "ꮷ", "ꮸ", "ꮹ", "ꮺ", "ꮻ", "ꮼ", "ꮽ", "ꮾ", "ꮿ"}

CaseIgnorable ==
    {"'", ".", ":", "^", "¨", "­", "¯", "´", "·", "¸", "ʰ", "ʱ", "ʲ", "ʳ", "ʴ", "ʵ",
     "ʶ", "ʷ", "ʸ", "ʹ", "ʺ", "ʻ", "ʼ", "ʽ", "ʾ", "ʿ", "ˀ", "ˁ", "˂", "˃", "˄", "˅",
     "ˆ", "ˇ", "ˈ", "ˉ", "ˊ", "ˋ", "ˌ", "ˍ", "ˎ", "ˏ", "ː", "ˑ", "˒", "˓", "˔", "˕",
     "˖", "˗", "˘", "˙", "˚", "˛", "˜", "˝", "˞", "˟", "ˠ", "ˡ", "ˢ", "ˣ", "ˤ", "˥",
     "˦", "˧", "˨", "˩", "˪", "˫", "ˬ", "˭", "ˮ", "˯", "˰", "˱", "˲", "˳", "˴", "˵",
     "˶", "˷", "˸", "˹", "˺", "˻", "˼", "˽", "˾", "˿", "΄", "΅", "·", "҃", "҄", "҅",
     "҆", "҇", "҈", "҉", "֑", "֒", "֓", "֔", "֕", "֖", "֗", "֘", "֙", "֚", "֛", "֜",
     "֝", "֞", "֟", "֠", "֡", "֢", "֣", "֤", "֥", "֦", "֧", "֨", "֩", "֪", "֫", "֬",
     "֭", "֮", "֯", "ְ", "ֱ", "ֲ", "ֳ", "ִ", "ֵ", "ֶ", "ַ", "ָ", "ֹ", "ֺ", "ֻ", "ּ",
     "ֽ", "ֿ", "ׁ", "ׂ", "ׄ", "ׅ", "ׇ", "״", "ۖ", "ۗ", "ۘ", "ۙ", "ۚ", "ۛ", "ۜ", "۝",
     "۟", "۠", "ۡ", "ۢ", "ۣ", "ۤ", "ۥ", "ۦ", "ۧ", "ۨ", "۪", "۫", "۬", "ۭ", "ަ", "ާ",
     "ި", "ީ", "ު", "ޫ", "ެ", "ޭ", "ޮ", "ޯ", "ް", "߫", "߬", "߭", "߮", "߯", "߰", "߱",
     "߲", "߳", "ߴ", "ߵ", "ߺ", "߽", "࢈", "࢐", "࢑", "࢘", "࢙", "࢚", "࢛", "࢜", "࢝", "࢞",
     "࢟", "ࣉ", "࣊", "࣋", "࣌", "࣍", "࣎", "࣏", "࣐", "࣑", "࣒", "࣓", "ࣔ", "ࣕ", "ࣖ", "ࣗ",
     "ࣘ", "ࣙ", "ࣚ", "ࣛ", "ࣜ", "ࣝ", "ࣞ", "ࣟ", "࣠", "࣡", "࣢", "ࣣ", "ࣤ", "ࣥ", "ࣦ", "ࣧ",
     "ࣨ", "ࣩ", "࣪", "࣫", "࣬", "࣭", "࣮", "࣯", "ࣰ", "ࣱ", "ࣲ", "ࣳ", "ࣴ", "ࣵ", "ࣶ", "ࣷ",
     "ࣸ", "ࣹ", "ࣺ", "ࣻ", "ࣼ", "ࣽ", "ࣾ", "ࣿ", "ঁ", "়", "ু", "ূ", "ৃ", "ৄ", "্", "ৢ",
     "ৣ", "৾", "ઁ", "ં", "઼", "ુ", "ૂ", "ૃ", "ૄ", "ૅ", "ે", "ૈ", "્", "ૢ", "ૣ", "ૺ",
     "ૻ", "ૼ", "૽", "૾", "૿", "ஂ", "ீ", "்", "ಁ", "಼", "ಿ", "ೆ", "ೌ", "್", "ೢ", "ೣ",
     "ඁ", "්", "ි", "ී", "ු", "ූ", "ັ", "ິ", "ີ", "ຶ", "ື", "ຸ", "ູ", "຺", "ົ", "ຼ",
     "ໆ", "່", "້", "໊", "໋", "໌", "ໍ", "ྀ", "ཱྀ", "ྂ", "ྃ", "྄", "྆", "྇", "ྍ", "ྎ",
     "ྏ", "ྐ", "ྑ", "ྒ", "ྒྷ", "ྔ", "ྕ", "ྖ", "ྗ", "ྙ", "ྚ", "ྛ", "ྜ", "ྜྷ", "ྞ", "ྟ",
     "ྠ", "ྡ", "ྡྷ", "ྣ", "ྤ", "ྥ", "ྦ", "ྦྷ", "ྨ", "ྩ", "ྪ", "ྫ", "ྫྷ", "ྭ", "ྮ", "ྯ",
     "ྰ", "ྱ", "ྲ", "ླ", "ྴ", "ྵ", "ྶ", "ྷ", "ྸ", "ྐྵ", "ྺ", "ྻ", "ྼ", "࿆", "ႂ", "ႅ",
     "ႆ", "ႍ", "ႝ", "ჼ", "឴", "឵", "ិ", "ី", "ឹ", "ឺ", "ុ", "ូ", "ួ", "ំ", "៉", "៊",
     "់", "៌", "៍", "៎", "៏", "័", "៑", "្", "៓", "ៗ", "៝", "ᢅ", "ᢆ", "ᢩ", "ᪧ", "᪰",
     "᪱", "᪲", "᪳", "᪴", "᪵", "᪶", "᪷", "᪸", "᪹", "᪺", "᪻", "᪼", "᪽", "᪾", "ᪿ", "ᫀ",
     "᫁", "᫂", "᫃", "᫄", "᫅", "᫆", "᫇", "᫈", "᫉", "᫊", "᫋", "ᫌ", "ᫍ", "ᫎ", "ᮀ", "ᮁ",
     "ᮢ", "ᮣ", "ᮤ", "ᮥ", "ᮨ", "ᮩ", "᮫", "ᮬ", "ᮭ", "᯦", "ᯨ", "ᯩ", "ᯭ", "ᯯ", "ᯰ", "ᯱ",
     "᳐", "᳑", "᳒", "᳔", "᳕", "᳖", "᳗", "᳘", "᳙", "᳚", "᳛", "᳜", "᳝", "᳞", "᳟", "᳠",
     "᳢", "᳣", "᳤", "᳥", "᳦", "᳧", "᳨", "᳭", "᳴", "᳸", "᳹", "ᶛ", "ᶜ", "ᶝ", "ᶞ", "ᶟ",
     "ᶠ", "ᶡ", "ᶢ", "ᶣ", "ᶤ", "ᶥ", "ᶦ", "ᶧ", "ᶨ", "ᶩ", "ᶪ", "ᶫ", "ᶬ", "ᶭ", "ᶮ", "ᶯ",
     "ᶰ", "ᶱ", "ᶲ", "ᶳ", "ᶴ", "ᶵ", "ᶶ", "ᶷ", "ᶸ", "ᶹ", "ᶺ", "ᶻ", "ᶼ", "ᶽ", "ᶾ", "ᶿ",
     "᷀", "᷁", "᷂", "᷃", "᷄", "᷅", "᷆", "᷇", "᷈", "᷉", "᷊", "᷋", "᷌", "᷍", "᷎", "᷏",
     "᷐", "᷑", "᷒", "ᷓ", "ᷔ", "ᷕ", "ᷖ", "ᷗ", "ᷘ", "ᷙ", "ᷚ", "ᷛ", "ᷜ", "ᷝ", "ᷞ", "ᷟ",
     "ᷠ", "ᷡ", "ᷢ", "ᷣ", "ᷤ", "ᷥ", "ᷦ", "ᷧ", "ᷨ", "ᷩ", "ᷪ", "ᷫ", "ᷬ", "ᷭ", "ᷮ", "ᷯ",
     "ᷰ", "ᷱ", "ᷲ", "ᷳ", "ᷴ", "᷵", "᷶", "᷷", "᷸", "᷹", "᷺", "᷻", "᷼", "᷽", "᷾", "᷿",
     "᾽", "᾿", "῀", "῁", "῍", "῎", "῏", "῝", "῞", "῟", "῭", "΅", "`", "´", "῾", "ₐ",
     "ₑ", "ₒ", "ₓ", "ₔ", "ₕ", "ₖ", "ₗ", "ₘ", "ₙ", "ₚ", "ₛ", "ₜ", "⃐", "⃑", "⃒", "⃓",
     "⃔", "⃕", "⃖", "⃗", "⃘", "⃙", "⃚", "⃛", "⃜", "⃝", "⃞", "⃟", "⃠", "⃡", "⃢", "⃣",
     "⃤", "⃥", "⃦", "⃧", "⃨", "⃩", "⃪", "⃫", "⃬", "⃭", "⃮", "⃯", "⃰", "⳯", "⳰", "⳱",
     "ⷠ", "ⷡ", "ⷢ", "ⷣ", "ⷤ", "ⷥ", "ⷦ", "ⷧ", "ⷨ", "ⷩ", "ⷪ", "ⷫ", "ⷬ", "ⷭ", "ⷮ", "ⷯ",
     "ⷰ", "ⷱ", "ⷲ", "ⷳ", "ⷴ", "ⷵ", "ⷶ", "ⷷ", "ⷸ", "ⷹ", "ⷺ", "ⷻ", "ⷼ", "ⷽ", "ⷾ", "ⷿ",
     "゙", "゚", "゛", "゜", "ゝ", "ゞ", "ー", "ヽ", "ヾ", "ꓸ", "ꓹ", "ꓺ", "ꓻ", "ꓼ", "ꓽ", "ꚜ",
     "ꚝ", "ꚞ", "ꚟ", "꛰", "꛱", "ꞈ", "꞉", "꞊", "ꟲ", "ꟳ", "ꟴ", "ꟸ", "ꟹ", "꣄", "ꣅ", "꣠",
     "꣡", "꣢", "꣣", "꣤", "꣥", "꣦", "꣧", "꣨", "꣩", "꣪", "꣫", "꣬", "꣭", "꣮", "꣯", "꣰",
     "꣱", "ꣿ", "ꦀ", "ꦁ", "ꦂ", "꦳", "ꦶ", "ꦷ", "ꦸ", "ꦹ", "ꦼ", "ꦽ", "ꧏ", "ꧥ", "ꧦ", "ꪰ",
     "ꪲ", "ꪳ", "ꪴ", "ꪷ", "ꪸ", "ꪾ", "꪿", "꫁", "ꫝ", "ꫬ", "ꫭ", "ꫳ", "ꫴ", "꫶", "ꯥ", "ꯨ",
     "꯭", "﮲", "﮳", "﮴", "﮵", "﮶", "﮷", "﮸", "﮹", "﮺", "﮻", "﮼", "﮽", "﮾", "﮿", "﯀",
     "﯁", "﯂", "﻿", "ﾞ", "ﾟ", "￣", "￹", "￺", "￻"}

\* the capital sigma s[i] ends a word: the nearest character before it that is not
\* case-ignorable is cased, and the nearest such character after it, if any, is not
FinalSigma(s, i) ==
    /\ \E j \in 1..(i - 1) :
          s[j] \in Cased /\ \A k \in (j + 1)..(i - 1) : s[k] \in CaseIgnorable
    /\ ~\E j \in (i + 1)..Len(s) :
          s[j] \in Cased /\ \A k \in (i + 1)..(j - 1) : s[k] \in CaseIgnorable

\* s.lower()
Lower(s) ==
    [i \in 1..Len(s) |->
        IF s[i] = "Σ" THEN (IF FinalSigma(s, i) THEN "ς" ELSE "σ")
        ELSE IF s[i] \in UpperCaseOnly THEN CHOOSE c \in {} : TRUE
        ELSE IF \E j \in DOMAIN UpperCase : UpperCase[j] = s[i]
        THEN LowerCase[CHOOSE j \in DOMAIN UpperCase : UpperCase[j] = s[i]]
        ELSE s[i]]

\* input(...) or "Yes"
or_Yes(reply) == IF reply # <<>> THEN reply ELSE s_Yes

\* overwrite_existing in ('y', 'yes', 'Yes', 'Y', 'YES')
dcm_accepts(reply) ==
    or_Yes(reply) \in {<<"y">>, <<"y","e","s">>, <<"Y","e","s">>, <<"Y">>, <<"Y","E","S">>}

\* yes and 'yes'.startswith(yes.lower())
lib_accepts(reply) == StartsWith(<<"y","e","s">>, Lower(or_Yes(reply)))

MergeStart(k) ==
    [i |-> 1, out |-> <<>>, overwrite_existing |-> FALSE, overwrote_existing |-> FALSE,
     k |-> k, status |-> "run", prompts |-> 0]

\* one iteration of 'for line in readfile' of import_dcm
dcm_merge_line(m, lines, device, ans, sc) ==
    LET line == lines[m.i]
        nx == [m EXCEPT !.i = @ + 1]
    IN IF IsTrailer(line) THEN
            [nx EXCEPT !.out = (IF ~m.overwrote_existing
                                THEN m.out \o record_with_header(sc) ELSE m.out) \o <<line>>,
                       !.status = "done"]
       ELSE IF StartsWith(line, s_CMP) THEN
            LET component_name == Strip(Drop(line, 5))
            IN IF StartsWith(component_name, device) THEN
                    IF m.k >= Len(ans) THEN [m EXCEPT !.status = "EOFError"]
                    ELSE IF ~dcm_accepts(ans[m.k + 1])
                    THEN [m EXCEPT !.k = @ + 1, !.prompts = @ + 1, !.status = "skipped"]
                    ELSE [nx EXCEPT !.k = @ + 1, !.prompts = @ + 1,
                                    !.out = m.out \o record_without_header(sc),
                                    !.overwrite_existing = TRUE,
                                    !.overwrote_existing = TRUE]
               ELSE [nx EXCEPT !.out = Append(m.out, line)]
       ELSE IF m.overwrite_existing THEN
            IF StartsWith(line, s_ENDCMP) THEN [nx EXCEPT !.overwrite_existing = FALSE] ELSE nx
       ELSE [nx EXCEPT !.out = Append(m.out, line)]

RECURSIVE dcm_merge_loop(_, _, _, _, _)
dcm_merge_loop(m, lines, device, ans, sc) ==
    IF m.status # "run" THEN m
    ELSE IF m.i > Len(lines) THEN [m EXCEPT !.status = "done"]
    ELSE dcm_merge_loop(dcm_merge_line(m, lines, device, ans, sc), lines, device, ans, sc)

\* the merge of import_dcm: target lines -> staging file, after the scan sc
dcm_merge(lines, device, ans, sc) == dcm_merge_loop(MergeStart(sc.k), lines, device, ans, sc)

\* one iteration of 'for line in readfile' of import_lib
lib_merge_line(m, lines, device, ans, sc) ==
    LET line == lines[m.i]
        nx == [m EXCEPT !.i = @ + 1]
    IN IF IsTrailer(line) THEN
            [nx EXCEPT !.out = (IF ~m.overwrote_existing
                                THEN m.out \o record_with_header(sc) ELSE m.out) \o <<line>>,
                       !.status = "done"]
       ELSE IF StartsWith(line, s_DEF) THEN
            IF Len(Split(line)) < 2 THEN [m EXCEPT !.status = "IndexError"]
            ELSE LET component_name == Split(line)[2]
                 IN IF StartsWith(component_name, device) THEN
                        IF m.k >= Len(ans) THEN [m EXCEPT !.status = "EOFError"]
                        ELSE IF ~lib_accepts(ans[m.k + 1])
                        THEN [m EXCEPT !.k = @ + 1, !.prompts = @ + 1, !.status = "skipped"]
                        ELSE [nx EXCEPT !.k = @ + 1, !.prompts = @ + 1,
                                        !.out = m.out \o record_without_header(sc),
                                        !.overwrite_existing = TRUE,
                                        !.overwrote_existing = TRUE]
                    ELSE [nx EXCEPT !.out = Append(m.out, line)]
       ELSE IF m.overwrite_existing THEN
            IF StartsWith(line, s_ENDDEF) THEN [nx EXCEPT !.overwrite_existing = FALSE] ELSE nx
       ELSE [nx EXCEPT !.out = Append(m.out, line)]

RECURSIVE lib_merge_loop(_, _, _, _, _)
lib_merge_loop(m, lines, device, ans, sc) ==
    IF m.status # "run" THEN m
    ELSE IF m.i > Len(lines) THEN [m EXCEPT !.status = "done"]
    ELSE lib_merge_loop(lib_merge_line(m, lines, device, ans, sc), lines, device, ans, sc)

\* the merge of import_lib: target lines -> staging file, after the scan sc
lib_merge(lines, device, ans, sc) == lib_merge_loop(MergeStart(sc.k), lines, device, ans, sc)

----------------------------------------------------------------------------
(* The file system.  A path is a record [kind, name]; fs.dirs is the set of *)
(* directories that exist, fs.files gives each path its file.               *)

File(lines) == [exists |-> TRUE, lines |-> lines]

Absent == [exists |-> FALSE, lines |-> <<>>]

\* REMOTE_LIB_PATH / (remote_type.name + '.dcm'), '.dcm~', '.lib', '.lib~'
dcm_file_read == [kind |-> "dcm", name |-> <<>>]

\* the staging path taken to be the target itself: a merge in place
dcm_file_write_in_place == dcm_file_read

dcm_file_write == [kind |-> "dcm~", name |-> <<>>]

lib_file_read == [kind |-> "lib", name |-> <<>>]

lib_file_write == [kind |-> "lib~", name |-> <<>>]

\* REMOTE_FOOTPRINTS_PATH / (remote_type.name + '.pretty') / name, and name + "~"
footprint_file_read(name) == [kind |-> "footprint", name |-> name]

footprint_file_write(name) == [kind |-> "footprint~", name |-> name]

\* REMOTE_3DMODEL_PATH / name
model_file(name) == [kind |-> "model", name |-> name]

\* path.parent
Parent(path) ==
    IF path.kind \in {"dcm", "dcm~", "lib", "lib~"} THEN "REMOTE_LIB_PATH"
    ELSE IF path.kind \in {"footprint", "footprint~"} THEN "pretty"
    ELSE "REMOTE_3DMODEL_PATH"

\* modified_objects.append(obj, modification): a dict keeps the position of a key it has
ledger_append(L, obj, modification) ==
    IF \E i \in 1..Len(L) : L[i].obj = obj
    THEN [i \in 1..Len(L) |-> IF L[i].obj = obj THEN [L[i] EXCEPT !.mod = modification] ELSE L[i]]
    ELSE Append(L, [obj |-> obj, mod |-> modification])

DirObj(d) == [kind |-> d, name |-> <<>>]

\* check_file(path) on the pair w = [fs, ledger]
check_file(w, path) ==
    IF w.fs.files[path].exists THEN w
    ELSE LET mk == Parent(path) \notin w.fs.dirs
             L1 == IF mk THEN ledger_append(w.ledger, DirObj(Parent(path)), "MKDIR") ELSE w.ledger
         IN [fs |-> [dirs |-> w.fs.dirs \cup {Parent(path)},
                     files |-> [w.fs.files EXCEPT ![path] = File(<<>>)]],
             ledger |-> ledger_append(L1, path, "TOUCH_FILE")]

\* path.open('wt') followed by writes of lines and close, on a file that exists
write_file(f, path, lines) == [f EXCEPT !.files[path] = File(lines)]

\* the template written into a zero-length .dcm target
dcm_template == <<t_dcm_1, t_dcm_2>>

\* the template written into a zero-length .lib target
lib_template == <<t_lib_1, t_lib_2, t_lib_3>>

\* the model block of import_footprint
model_block(model_name) == << m_1_pre \o model_name \o m_1_post, m_2, m_3, m_4, m_5 >>

\* the lines written to the footprint staging file: the block goes before the last line
footprint_with_model(lines, model_name) ==
    IF lines = <<>> THEN <<>>
    ELSE SubSeq(lines, 1, Len(lines) - 1) \o model_block(model_name) \o <<lines[Len(lines)]>>

----------------------------------------------------------------------------
(* The archive.  layout abstracts the member tree that get_remote_info      *)
(* tests; items is the listing of the archive's root directory that         *)
(* import_model and import_footprint iterate over in the flat layout.       *)
(* pretty says whether the directory KiCAD of the layout ULTRA_LIBRARIAN    *)
(* has a member whose name ends in '.pretty' (line 163); an archive of      *)
(* that layout without one has no footprint items.                          *)

None == [present |-> FALSE, lines |-> <<>>]

Some(lines) == [present |-> TRUE, lines |-> lines]

NoName == [present |-> FALSE, name |-> <<>>]

SomeName(n) == [present |-> TRUE, name |-> n]

\* device = zip_file.name[:-4]
Device(a) == a.device

RECURSIVE first_with_suffix(_, _)
first_with_suffix(items, suffix) ==
    IF items = <<>> THEN NoName
    ELSE IF EndsWith(Head(items).name, suffix) THEN SomeName(Head(items).name)
    ELSE first_with_suffix(Tail(items), suffix)

\* the content of the first member called name
RECURSIVE member_lines(_, _)
member_lines(items, name) ==
    IF items = <<>> THEN <<>>
    ELSE IF Head(items).name = name THEN Head(items).lines
    ELSE member_lines(Tail(items), name)

\* get_remote_info without the final assert of line 177: an archive of no known
\* layout is read as a flat one
get_remote_info_any_layout(a) ==
    IF a.layout = "OCTOPART" THEN
        [ok |-> TRUE, remote_name |-> s_OCTOPART, dcm |-> a.dcm, lib |-> a.lib,
         footprint_items |-> a.items, model_path |-> "file"]
    ELSE IF a.layout = "SAMACSYS" THEN
        [ok |-> a.dcm.present /\ a.lib.present, remote_name |-> s_SAMACSYS, dcm |-> a.dcm,
         lib |-> a.lib, footprint_items |-> a.items, model_path |-> "file"]
    ELSE IF a.layout = "ULTRA_LIBRARIAN" THEN
        [ok |-> a.lib.present /\ a.pretty, remote_name |-> s_ULTRA_LIBRARIAN, dcm |-> a.dcm, lib |-> a.lib,
         footprint_items |-> a.items,
         model_path |-> IF first_with_suffix(a.items, s_dot_step).present THEN "file" ELSE "None"]
    ELSE
        [ok |-> TRUE, remote_name |-> s_SNAPEDA, dcm |-> a.dcm, lib |-> a.lib,
         footprint_items |-> a.items, model_path |-> "dir"]

\* get_remote_info: ok is FALSE when an assert fails; model_path is "file" for a
\* path that is not a directory of the archive (iterdir raises ValueError), "None"
\* for None (AttributeError) and "dir" for the root directory
get_remote_info(a) ==
    IF a.layout = "OCTOPART" THEN
        [ok |-> TRUE, remote_name |-> s_OCTOPART, dcm |-> a.dcm, lib |-> a.lib,
         footprint_items |-> a.items, model_path |-> "file"]
    ELSE IF a.layout = "SAMACSYS" THEN
        [ok |-> a.dcm.present /\ a.lib.present, remote_name |-> s_SAMACSYS, dcm |-> a.dcm,
         lib |-> a.lib, footprint_items |-> a.items, model_path |-> "file"]
    ELSE IF a.layout = "ULTRA_LIBRARIAN" THEN
        [ok |-> a.lib.present /\ a.pretty, remote_name |-> s_ULTRA_LIBRARIAN, dcm |-> a.dcm, lib |-> a.lib,
         footprint_items |-> a.items,
         model_path |-> IF first_with_suffix(a.items, s_dot_step).present THEN "file" ELSE "None"]
    ELSE IF a.layout = "SNAPEDA" /\ a.lib.present THEN
        [ok |-> TRUE, remote_name |-> s_SNAPEDA, dcm |-> a.dcm, lib |-> a.lib,
         footprint_items |-> a.items, model_path |-> "dir"]
    ELSE
        [ok |-> FALSE, remote_name |-> <<>>, dcm |-> None, lib |-> None,
         footprint_items |-> <<>>, model_path |-> "None"]

----------------------------------------------------------------------------
(* Input texts: the lines of the archives' files and of the target files *)

\* # A
l_H_A == <<"#"," ","A">>

\* DEF A U
l_DEF_A_U == <<"D","E","F"," ","A"," ","U">>

\* F1 "A"
l_F1_A == <<"F","1"," ","\"","A","\"">>

\* F2 "P"
l_F2_P == <<"F","2"," ","\"","P","\"">>

\* ENDDEF
l_ENDDEF == <<"E","N","D","D","E","F">>

\* DEF AB U
l_DEF_AB_U == <<"D","E","F"," ","A","B"," ","U">>

\* DEF B U
l_DEF_B_U == <<"D","E","F"," ","B"," ","U">>

\* DEF AX U
l_DEF_AX_U == <<"D","E","F"," ","A","X"," ","U">>

\* F2 ""
l_F2 == <<"F","2"," ","\"","\"">>

\* $CMP A
l_SCMP_A == <<"$","C","M","P"," ","A">>

\* D d
l_D_d == <<"D"," ","d">>

\* F u
l_F_u == <<"F"," ","u">>

\* $ENDCMP
l_SENDCMP == <<"$","E","N","D","C","M","P">>

\* $CMP AB
l_SCMP_AB == <<"$","C","M","P"," ","A","B">>

\* $CMP B
l_SCMP_B == <<"$","C","M","P"," ","B">>

\* $CMP AX
l_SCMP_AX == <<"$","C","M","P"," ","A","X">>

\* (module f
l_pmodule_f == <<"(","m","o","d","u","l","e"," ","f">>

\*   (pad 1)
l_ppad_1q == <<" "," ","(","p","a","d"," ","1",")">>

\* )
l_q == <<")">>

\* (module g
l_pmodule_g == <<"(","m","o","d","u","l","e"," ","g">>

\* (module old
l_pmodule_old == <<"(","m","o","d","u","l","e"," ","o","l","d">>

\* ISO-10303-21; new
l_ISO_10303_21_new == <<"I","S","O","-","1","0","3","0","3","-","2","1",";"," ","n","e","w">>

\* ISO-10303-21; old
l_ISO_10303_21_old == <<"I","S","O","-","1","0","3","0","3","-","2","1",";"," ","o","l","d">>

\* # B
l_H_B == <<"#"," ","B">>

\* D b
l_D_b == <<"D"," ","b">>

\* # A old
l_H_A_old == <<"#"," ","A"," ","o","l","d">>

\* F2 "Q"
l_F2_Q == <<"F","2"," ","\"","Q","\"">>

\* D old
l_D_old == <<"D"," ","o","l","d">>

\* A
n_A == <<"A">>

\* f.kicad_mod
n_f_kicad_mod == <<"f",".","k","i","c","a","d","_","m","o","d">>

\* g.mod
n_g_mod == <<"g",".","m","o","d">>

\* p.step
n_p_step == <<"p",".","s","t","e","p">>

\* readme.txt
n_readme == <<"r","e","a","d","m","e",".","t","x","t">>

\* a symbol record for A with its header
lib_good == <<s_hash, l_H_A, s_hash, l_DEF_A_U, l_F1_A, l_F2_P, l_ENDDEF>>

\* a symbol record named AB, imported as device A
lib_long == <<l_DEF_AB_U, l_F2_P, l_ENDDEF>>

\* a symbol record for another device
lib_unexpected == <<l_DEF_B_U, l_ENDDEF>>

\* a second DEF before the ENDDEF
lib_nested == <<l_DEF_A_U, l_DEF_AX_U, l_ENDDEF>>

\* no ENDDEF
lib_noend == <<l_DEF_A_U, l_F2_P>>

\* a stray '#' line, the file header, then the header and the record of A with an empty footprint field
lib_nofp == <<s_hash, t_lib_1, s_hash, l_H_A, s_hash, l_DEF_A_U, l_F2, l_ENDDEF>>

\* no DEF line at all
lib_noopener == <<s_hash, l_H_A, s_hash>>

\* a second record after the first
lib_two == <<l_DEF_A_U, l_ENDDEF, l_DEF_B_U, l_ENDDEF>>

\* a description record for A with its header
dcm_good == <<s_hash, l_H_A, s_hash, l_SCMP_A, l_D_d, l_F_u, l_SENDCMP>>

\* a description record named AB, imported as device A
dcm_long == <<l_SCMP_AB, l_D_d, l_SENDCMP>>

\* a description record for another device
dcm_unexpected == <<l_SCMP_B, l_D_d, l_SENDCMP>>

\* a second $CMP before the $ENDCMP
dcm_nested == <<l_SCMP_A, l_SCMP_AX, l_SENDCMP>>

\* a '#' line that the file header separates from the record
dcm_cleared == <<s_hash, t_dcm_1, l_SCMP_A, l_D_d, l_SENDCMP>>

\* no $CMP line at all
dcm_noopener == <<s_hash, l_H_A, s_hash>>

\* no $ENDCMP
dcm_noend == <<l_SCMP_A, l_D_d>>

\* footprint texts
fp_f == <<l_pmodule_f, l_ppad_1q, l_q>>

fp_g == <<l_pmodule_g, l_q>>

fp_old == <<l_pmodule_old, l_q>>

\* model files
step_new == <<l_ISO_10303_21_new>>

step_old == <<l_ISO_10303_21_old>>

\* target libraries: a record of another device
lib_T_other == <<t_lib_1, t_lib_2, s_hash, l_H_B, s_hash, l_DEF_B_U, l_ENDDEF, t_lib_3>>

dcm_T_other == <<t_dcm_1, s_hash, l_H_B, s_hash, l_SCMP_B, l_D_b, l_SENDCMP, t_dcm_2>>

\* a record of device A with a header block of its own, then one of another device
lib_T_same == <<t_lib_1, s_hash, l_H_A_old, s_hash, l_DEF_A_U, l_F2_Q, l_ENDDEF, l_DEF_B_U, l_ENDDEF, t_lib_3>>

dcm_T_same == <<t_dcm_1, s_hash, l_H_A_old, s_hash, l_SCMP_A, l_D_old, l_SENDCMP, l_SCMP_B, l_D_b, l_SENDCMP, t_dcm_2>>

\* two records that device A matches
lib_T_two == <<t_lib_1, l_DEF_A_U, l_ENDDEF, l_DEF_AB_U, l_ENDDEF, t_lib_3>>

dcm_T_two == <<t_dcm_1, l_SCMP_A, l_D_old, l_SENDCMP, l_SCMP_AB, l_D_old, l_SENDCMP, t_dcm_2>>

\* two openers with no closer between them
lib_T_nested == <<t_lib_1, l_DEF_B_U, l_DEF_A_U, l_ENDDEF, t_lib_3>>

dcm_T_nested == <<t_dcm_1, l_SCMP_B, l_SCMP_A, l_SENDCMP, t_dcm_2>>

\* no trailer line
lib_T_notrailer == <<t_lib_1, l_DEF_B_U, l_ENDDEF>>

dcm_T_notrailer == <<t_dcm_1, l_SCMP_B, l_D_b, l_SENDCMP>>


----------------------------------------------------------------------------
(* Bounds and input sets *)

\* number of import_all runs in one session
MaxRuns == 2

\* greatest number of answers the operator gives to one stage before the input ends
MaxPrompts == 4

\* what the operator may type at a prompt: nothing, "n", "ye"
Answers == { <<>>, <<"n">>, <<"y","e">> }

Item(name, lines) == [name |-> name, lines |-> lines]

it_f == Item(n_f_kicad_mod, fp_f)

it_g == Item(n_g_mod, fp_g)

it_step == Item(n_p_step, step_new)

it_readme == Item(n_readme, <<>>)

Arch(layout, dcm, lib, items) ==
    [device |-> n_A, layout |-> layout, dcm |-> dcm, lib |-> lib, pretty |-> TRUE,
     items |-> items]

\* the archive a under the file name device + '.zip'
WithDevice(a, device) == [a EXCEPT !.device = device]

\* a file name that ends with a blank before '.zip'
n_A_blank == n_A \o <<" ">>

\* the archive a without a '.pretty' member
WithoutPretty(a) == [a EXCEPT !.pretty = FALSE]

Archives ==
    { Arch("SNAPEDA", Some(dcm_good), Some(lib_good), <<it_readme, it_f, it_step>>),
      Arch("SNAPEDA", Some(dcm_long), Some(lib_long), <<it_f, it_step>>),
      Arch("SNAPEDA", Some(dcm_good), Some(lib_unexpected), <<it_f, it_step>>),
      Arch("SNAPEDA", Some(dcm_unexpected), Some(lib_good), <<it_f, it_step>>),
      Arch("SNAPEDA", Some(dcm_good), Some(lib_nested), <<it_f, it_step>>),
      Arch("SNAPEDA", Some(dcm_nested), Some(lib_good), <<it_f, it_step>>),
      Arch("SNAPEDA", Some(dcm_good), Some(lib_noend), <<it_f, it_step>>),
      Arch("SNAPEDA", Some(dcm_noend), Some(lib_good), <<it_f, it_step>>),
      Arch("SNAPEDA", Some(dcm_good), Some(lib_two), <<it_f, it_step>>),
      Arch("SNAPEDA", Some(dcm_cleared), Some(lib_nofp), <<it_f, it_step>>),
      Arch("SNAPEDA", Some(dcm_noopener), Some(lib_good), <<it_f, it_step>>),
      Arch("SNAPEDA", Some(dcm_good), Some(lib_noopener), <<it_f, it_step>>),
      Arch("SNAPEDA", None, Some(lib_good), <<it_f>>),
      Arch("SNAPEDA", Some(dcm_good), Some(lib_good), <<it_f, it_g, it_step>>),
      Arch("SNAPEDA", Some(dcm_good), Some(lib_good), <<it_step>>),
      Arch("SNAPEDA", Some(dcm_good), None, <<it_f, it_step>>),
      Arch("OCTOPART", Some(dcm_good), Some(lib_good), <<it_f>>),
      Arch("SAMACSYS", None, Some(lib_good), <<it_f>>),
      Arch("ULTRA_LIBRARIAN", None, Some(lib_good), <<it_f>>),
      WithDevice(Arch("SNAPEDA", None, Some(lib_good), <<it_f, it_step>>), n_A_blank),
      WithoutPretty(Arch("ULTRA_LIBRARIAN", Some(dcm_good), Some(lib_good), <<>>)) }

FpNames == {n_f_kicad_mod, n_g_mod}

StepNames == {n_p_step}

Paths ==
    {dcm_file_read, dcm_file_write, lib_file_read, lib_file_write}
    \cup {footprint_file_read(n) : n \in FpNames}
    \cup {footprint_file_write(n) : n \in FpNames}
    \cup {model_file(n) : n \in StepNames}

AllDirs == {"REMOTE_LIB_PATH", "pretty", "REMOTE_3DMODEL_PATH"}

NoFiles == [p \in Paths |-> Absent]

\* libraries holding dcm and lib, the footprint f and the model p installed
Installed(dcm, lib) ==
    [dirs |-> AllDirs,
     files |-> [NoFiles EXCEPT ![dcm_file_read] = File(dcm),
                               ![lib_file_read] = File(lib),
                               ![footprint_file_read(n_f_kicad_mod)] = File(fp_old),
                               ![model_file(n_p_step)] = File(step_old)]]

InitFS ==
    { [dirs |-> {}, files |-> NoFiles],
      [dirs |-> AllDirs,
       files |-> [NoFiles EXCEPT ![dcm_file_read] = File(<<>>), ![lib_file_read] = File(<<>>)]],
      Installed(dcm_T_other, lib_T_other),
      Installed(dcm_T_same, lib_T_same),
      Installed(dcm_T_two, lib_T_two),
      Installed(dcm_T_nested, lib_T_nested),
      Installed(dcm_T_notrailer, lib_T_notrailer) }

----------------------------------------------------------------------------
(* State *)

RetNone == [found_model |-> NoName, footprint |-> NoName]

NoScan == ScanStart(<<>>)

Stages == {"dcm", "model", "footprint", "lib"}

\* the observations of one run: the file system it started from, what each stage did
AuxStart(f, prev) ==
    [pre |-> f,
     declined |-> {},
     desc |-> <<>>,
     prompts |-> [s \in Stages |-> 0],
     entered |-> {},
     returned |-> {},
     scan |-> [s \in {"dcm", "lib"} |-> NoScan],
     promoted |-> {},
     prev |-> prev]

NoPrev == [valid |-> FALSE, completed |-> FALSE, declined |-> {}, desc |-> <<>>]

Init ==
    /\ fs \in InitFS
    /\ archive \in Archives
    /\ pc = "idle"
    /\ exc = "none"
    /\ ret = RetNone
    /\ ledger = <<>>
    /\ run = 0
    /\ aux = AuxStart(fs, NoPrev)

Raise(e) == pc' = "failed" /\ exc' = e

----------------------------------------------------------------------------
(* import_all, lines 464-474: a process is started on the archive.  The    *)
(* ledger is module state of the process, so it starts empty.               *)

StartRun(prev) ==
    /\ run' = run + 1
    /\ ledger' = <<>>
    /\ ret' = RetNone
    /\ aux' = AuxStart(fs, prev)
    /\ IF get_remote_info(archive).ok
       THEN pc' = "import_dcm" /\ exc' = "none"
       ELSE Raise("AssertionError")
    /\ UNCHANGED <<fs, archive>>

\* the first import of the archive
import_all ==
    /\ pc = "idle"
    /\ StartRun(NoPrev)

\* the same archive is imported again, after an import of it that completed
import_all_again ==
    /\ pc = "done"
    /\ run < MaxRuns
    /\ StartRun([valid |-> TRUE, completed |-> TRUE,
                 declined |-> aux.declined, desc |-> aux.desc])

----------------------------------------------------------------------------
(* import_dcm *)

\* the lines import_dcm reads from its target: the template when the target was
\* absent or had length zero
dcm_target_lines ==
    IF fs.files[dcm_file_read].lines = <<>> THEN dcm_template
    ELSE fs.files[dcm_file_read].lines

\* import_dcm, given the answers ans, calls input() at the end of the stream
dcm_input_ends(ans) ==
    LET info == get_remote_info(archive)
        device == Device(archive)
        sc == dcm_scan(info.dcm, device, ans)
    IN \/ sc.exc = "EOFError"
       \/ /\ sc.exc = "none"
          /\ dcm_merge(dcm_target_lines, device, ans, sc).status = "EOFError"

\* the input streams import_dcm may read, from the answers ans typed so far: the stage
\* asks for no more than ans holds, or input() finds the stream at its end (EOFError)
\* and the operator may have typed one answer more
RECURSIVE dcm_input_streams(_)
dcm_input_streams(ans) ==
    IF Len(ans) < MaxPrompts /\ dcm_input_ends(ans)
    THEN {ans} \cup UNION {dcm_input_streams(Append(ans, a)) : a \in Answers}
    ELSE {ans}

import_dcm ==
    /\ pc = "import_dcm"
    /\ \E ans \in dcm_input_streams(<<>>) :
        LET info == get_remote_info(archive)
            device == Device(archive)
            sc == dcm_scan(info.dcm, device, ans)
        IN IF sc.exc # "none" THEN
                /\ Raise(sc.exc)
                /\ aux' = [aux EXCEPT !.desc = sc.desc, !.scan["dcm"] = sc,
                                      !.entered = @ \cup {"dcm"}]
                /\ UNCHANGED <<fs, ledger>>
           ELSE
                LET w == check_file(check_file([fs |-> fs, ledger |-> ledger], dcm_file_read),
                                    dcm_file_write)
                    \* dcm_file_write.open('wt') truncates
                    opened == write_file(w.fs, dcm_file_write, <<>>)
                    \* a zero-length target is given the template, in place
                    f == IF opened.files[dcm_file_read].lines = <<>>
                         THEN write_file(opened, dcm_file_read, dcm_template) ELSE opened
                    m == dcm_merge(f.files[dcm_file_read].lines, device, ans, sc)
                IN /\ fs' = write_file(f, dcm_file_write, m.out)
                   /\ ledger' = w.ledger
                   /\ aux' = [aux EXCEPT !.desc = sc.desc,
                                         !.scan["dcm"] = sc,
                                         !.prompts["dcm"] = m.prompts,
                                         !.entered = @ \cup {"dcm"},
                                         !.returned = IF m.status \in {"done", "skipped"}
                                                      THEN @ \cup {"dcm"} ELSE @,
                                         !.declined = IF m.status = "skipped"
                                                      THEN @ \cup {"dcm"} ELSE @]
                   /\ IF m.status \in {"done", "skipped"}
                      THEN pc' = "import_model" /\ exc' = exc
                      ELSE Raise(m.status)
    /\ UNCHANGED <<archive, ret, run>>

----------------------------------------------------------------------------
(* import_model *)

\* import_model, given the answers ans, calls input() at the end of the stream
model_input_ends(ans) ==
    LET info == get_remote_info(archive)
        item == first_with_suffix(info.footprint_items, s_dot_step)
    IN /\ info.model_path = "dir"
       /\ item.present
       /\ fs.files[model_file(item.name)].exists
       /\ ans = <<>>

\* the input streams import_model may read, from the answers ans typed so far: the stage
\* asks for no more than ans holds, or input() finds the stream at its end (EOFError)
\* and the operator may have typed one answer more
RECURSIVE model_input_streams(_)
model_input_streams(ans) ==
    IF Len(ans) < MaxPrompts /\ model_input_ends(ans)
    THEN {ans} \cup UNION {model_input_streams(Append(ans, a)) : a \in Answers}
    ELSE {ans}

import_model ==
    /\ pc = "import_model"
    /\ \E ans \in model_input_streams(<<>>) :
        LET info == get_remote_info(archive)
            mk == "REMOTE_3DMODEL_PATH" \notin fs.dirs
            f == [fs EXCEPT !.dirs = @ \cup {"REMOTE_3DMODEL_PATH"}]
            L == IF mk THEN ledger_append(ledger, DirObj("REMOTE_3DMODEL_PATH"), "MKDIR")
                 ELSE ledger
            item == first_with_suffix(info.footprint_items, s_dot_step)
        IN IF info.model_path # "dir" THEN
                \* model_path.iterdir() on a file, or on None
                /\ Raise(IF info.model_path = "file" THEN "ValueError" ELSE "AttributeError")
                /\ fs' = f /\ ledger' = L
                /\ aux' = [aux EXCEPT !.entered = @ \cup {"model"}]
                /\ UNCHANGED ret
           ELSE IF ~item.present THEN
                /\ pc' = "import_footprint" /\ exc' = exc
                /\ fs' = f /\ ledger' = L
                /\ ret' = [ret EXCEPT !.found_model = NoName]
                /\ aux' = [aux EXCEPT !.entered = @ \cup {"model"},
                                      !.returned = @ \cup {"model"}]
           ELSE IF f.files[model_file(item.name)].exists /\ ans = <<>> THEN
                /\ Raise("EOFError")
                /\ fs' = f /\ ledger' = L
                /\ aux' = [aux EXCEPT !.entered = @ \cup {"model"}]
                /\ UNCHANGED ret
           ELSE IF f.files[model_file(item.name)].exists /\ ~dcm_accepts(ans[1]) THEN
                /\ pc' = "import_footprint" /\ exc' = exc
                /\ fs' = f /\ ledger' = L
                /\ ret' = [ret EXCEPT !.found_model = NoName]
                /\ aux' = [aux EXCEPT !.entered = @ \cup {"model"},
                                      !.returned = @ \cup {"model"},
                                      !.prompts["model"] = 1,
                                      !.declined = @ \cup {"model"}]
           ELSE
                /\ pc' = "import_footprint" /\ exc' = exc
                \* zf.extract writes the member over whatever is installed
                /\ fs' = write_file(f, model_file(item.name),
                                    member_lines(info.footprint_items, item.name))
                /\ ledger' = ledger_append(L, [kind |-> "zip", name |-> item.name],
                                           "EXTRACTED_FILE")
                /\ ret' = [ret EXCEPT !.found_model = SomeName(item.name)]
                /\ aux' = [aux EXCEPT !.entered = @ \cup {"model"},
                                      !.returned = @ \cup {"model"},
                                      !.prompts["model"] =
                                          IF f.files[model_file(item.name)].exists THEN 1 ELSE 0]
    /\ UNCHANGED <<archive, run>>

----------------------------------------------------------------------------
(* import_footprint *)

is_footprint(name) == EndsWith(name, s_dot_kicad_mod) \/ EndsWith(name, s_dot_mod)

FootprintStart(f, L) ==
    [fs |-> f, ledger |-> L, footprint |-> NoName, k |-> 0, status |-> "run", prompts |-> 0]

\* the body of 'for footprint_path_item in footprint_path.iterdir()' for one item
footprint_item(st, item, found_model, ans) ==
    LET rd == footprint_file_read(item.name)
        wr == footprint_file_write(item.name)
        named == [st EXCEPT !.footprint = SomeName(item.name)]
    IN IF ~is_footprint(item.name) THEN st
       ELSE IF found_model.present THEN
            LET asks == st.fs.files[rd].exists
            IN IF asks /\ st.k >= Len(ans) THEN [named EXCEPT !.status = "EOFError"]
               ELSE IF asks /\ ~dcm_accepts(ans[st.k + 1])
               THEN [named EXCEPT !.k = @ + 1, !.prompts = @ + 1, !.status = "skipped"]
               ELSE LET w1 == check_file([fs |-> st.fs, ledger |-> st.ledger], rd)
                        \* the source footprint is written over the installed file
                        f1 == write_file(w1.fs, rd, item.lines)
                        w2 == check_file([fs |-> f1, ledger |-> w1.ledger], wr)
                        f2 == write_file(w2.fs, wr,
                                  footprint_with_model(f1.files[rd].lines, found_model.name))
                    IN [named EXCEPT !.fs = f2, !.ledger = w2.ledger,
                                     !.k = IF asks THEN @ + 1 ELSE @,
                                     !.prompts = IF asks THEN @ + 1 ELSE @]
       ELSE IF "pretty" \notin st.fs.dirs
            THEN [named EXCEPT !.status = "FileNotFoundError"]
            ELSE [named EXCEPT !.fs = write_file(st.fs, rd, item.lines)]

RECURSIVE footprint_loop(_, _, _, _)
footprint_loop(st, items, found_model, ans) ==
    IF st.status # "run" THEN st
    ELSE IF items = <<>> THEN [st EXCEPT !.status = "done"]
    ELSE footprint_loop(footprint_item(st, Head(items), found_model, ans),
                        Tail(items), found_model, ans)

\* import_footprint, given the answers ans, calls input() at the end of the stream
footprint_input_ends(ans) ==
    footprint_loop(FootprintStart(fs, ledger), get_remote_info(archive).footprint_items,
                   ret.found_model, ans).status = "EOFError"

\* the input streams import_footprint may read, from the answers ans typed so far: the stage
\* asks for no more than ans holds, or input() finds the stream at its end (EOFError)
\* and the operator may have typed one answer more
RECURSIVE footprint_input_streams(_)
footprint_input_streams(ans) ==
    IF Len(ans) < MaxPrompts /\ footprint_input_ends(ans)
    THEN {ans} \cup UNION {footprint_input_streams(Append(ans, a)) : a \in Answers}
    ELSE {ans}

import_footprint ==
    /\ pc = "import_footprint"
    /\ \E ans \in footprint_input_streams(<<>>) :
        LET info == get_remote_info(archive)
            st == footprint_loop(FootprintStart(fs, ledger), info.footprint_items,
                                 ret.found_model, ans)
        IN /\ fs' = st.fs
           /\ ledger' = st.ledger
           /\ IF st.status \in {"done", "skipped"}
              THEN /\ pc' = "import_lib" /\ exc' = exc
                   /\ ret' = [ret EXCEPT !.footprint = st.footprint]
                   /\ aux' = [aux EXCEPT !.entered = @ \cup {"footprint"},
                                         !.returned = @ \cup {"footprint"},
                                         !.prompts["footprint"] = st.prompts,
                                         !.declined = IF st.status = "skipped"
                                                      THEN @ \cup {"footprint"} ELSE @]
              ELSE /\ Raise(st.status)
                   /\ aux' = [aux EXCEPT !.entered = @ \cup {"footprint"},
                                         !.prompts["footprint"] = st.prompts]
                   /\ UNCHANGED ret
    /\ UNCHANGED <<archive, run>>

----------------------------------------------------------------------------
(* import_lib *)

\* the lines import_lib reads from its target: the template when the target was
\* absent or had length zero
lib_target_lines ==
    IF fs.files[lib_file_read].lines = <<>> THEN lib_template
    ELSE fs.files[lib_file_read].lines

\* import_lib, given the answers ans, calls input() at the end of the stream
lib_input_ends(ans) ==
    LET info == get_remote_info(archive)
        device == Device(archive)
        sc == lib_scan(info.lib.lines, device, info.remote_name)
    IN /\ sc.exc = "none"
       /\ lib_merge(lib_target_lines, device, ans, sc).status = "EOFError"

\* the input streams import_lib may read, from the answers ans typed so far: the stage
\* asks for no more than ans holds, or input() finds the stream at its end (EOFError)
\* and the operator may have typed one answer more
RECURSIVE lib_input_streams(_)
lib_input_streams(ans) ==
    IF Len(ans) < MaxPrompts /\ lib_input_ends(ans)
    THEN {ans} \cup UNION {lib_input_streams(Append(ans, a)) : a \in Answers}
    ELSE {ans}

import_lib ==
    /\ pc = "import_lib"
    /\ \E ans \in lib_input_streams(<<>>) :
        LET info == get_remote_info(archive)
            device == Device(archive)
            sc == lib_scan(info.lib.lines, device, info.remote_name)
        IN IF sc.exc # "none" THEN
                /\ Raise(sc.exc)
                /\ aux' = [aux EXCEPT !.scan["lib"] = sc, !.entered = @ \cup {"lib"}]
                /\ UNCHANGED <<fs, ledger>>
           ELSE
                LET w == check_file(check_file([fs |-> fs, ledger |-> ledger], lib_file_read),
                                    lib_file_write)
                    \* lib_file_write.open('wt') truncates
                    opened == write_file(w.fs, lib_file_write, <<>>)
                    \* a zero-length target is given the template, in place
                    f == IF opened.files[lib_file_read].lines = <<>>
                         THEN write_file(opened, lib_file_read, lib_template) ELSE opened
                    m == lib_merge(f.files[lib_file_read].lines, device, ans, sc)
                IN /\ fs' = write_file(f, lib_file_write, m.out)
                   /\ ledger' = w.ledger
                   /\ aux' = [aux EXCEPT !.scan["lib"] = sc,
                                         !.prompts["lib"] = m.prompts,
                                         !.entered = @ \cup {"lib"},
                                         !.returned = IF m.status \in {"done", "skipped"}
                                                      THEN @ \cup {"lib"} ELSE @,
                                         !.declined = IF m.status = "skipped"
                                                      THEN @ \cup {"lib"} ELSE @]
                   /\ IF m.status \in {"done", "skipped"}
                      THEN pc' = "promote" /\ exc' = exc
                      ELSE Raise(m.status)
    /\ UNCHANGED <<archive, ret, run>>

----------------------------------------------------------------------------
(* import_all, lines 484-489: the three renames, in order, up to the first  *)
(* that raises                                                              *)

\* write.replace(read)
replace(f, wr, rd) == [f EXCEPT !.files[rd] = f.files[wr], !.files[wr] = Absent]

promote ==
    /\ pc = "promote"
    /\ LET f1 == replace(fs, dcm_file_write, dcm_file_read)
           n == ret.footprint.name
           f2 == replace(f1, footprint_file_write(n), footprint_file_read(n))
           f3 == replace(f2, lib_file_write, lib_file_read)
       IN IF ~ret.footprint.present THEN
               \* footprint_file_write is None
               /\ fs' = f1 /\ Raise("AttributeError")
               /\ aux' = [aux EXCEPT !.promoted = {"dcm"}]
          ELSE IF ~f1.files[footprint_file_write(n)].exists THEN
               /\ fs' = f1 /\ Raise("FileNotFoundError")
               /\ aux' = [aux EXCEPT !.promoted = {"dcm"}]
          ELSE /\ fs' = f3 /\ pc' = "done" /\ exc' = exc
               /\ aux' = [aux EXCEPT !.promoted = {"dcm", "footprint", "lib"}]
    /\ UNCHANGED <<archive, ret, ledger, run>>

----------------------------------------------------------------------------

Next ==
    \/ import_all
    \/ import_dcm
    \/ import_model
    \/ import_footprint
    \/ import_lib
    \/ promote

\* one import of the archive
Spec == Init /\ [][Next]_vars

NextAgain == Next \/ import_all_again

\* the archive is imported up to MaxRuns times
SpecAgain == Init /\ [][NextAgain]_vars

----------------------------------------------------------------------------
(* Vocabulary of the properties.  fmt is "dcm" or "lib".                    *)

Ended == pc \in {"done", "failed"}

TargetPath(fmt) == IF fmt = "dcm" THEN dcm_file_read ELSE lib_file_read

StagingPath(fmt) == IF fmt = "dcm" THEN dcm_file_write ELSE lib_file_write

\* the target file as it was when the run started, and the files now
TargetBefore(fmt) == aux.pre.files[TargetPath(fmt)]

TargetNow(fmt) == fs.files[TargetPath(fmt)]

StagedNow(fmt) == fs.files[StagingPath(fmt)]

IsOpener(fmt, line) == StartsWith(line, IF fmt = "dcm" THEN s_CMP ELSE s_DEF)

IsCloser(fmt, line) == StartsWith(line, IF fmt = "dcm" THEN s_ENDCMP ELSE s_ENDDEF)

\* the name a record-opening line carries
OpenerName(fmt, line) ==
    IF fmt = "dcm" THEN Strip(Drop(line, 5))
    ELSE IF Len(Split(line)) >= 2 THEN Split(line)[2] ELSE <<>>

\* the indices of the openers of t whose name the device prefix-matches
Matching(fmt, t, device) ==
    {i \in 1..Len(t) : IsOpener(fmt, t[i]) /\ StartsWith(OpenerName(fmt, t[i]), device)}

Min(S) == CHOOSE i \in S : \A j \in S : i <= j

\* openers and closers alternate over t[1..n], starting outside a record
RECURSIVE Balanced(_, _, _, _)
Balanced(fmt, t, i, inside) ==
    IF i > Len(t) THEN ~inside
    ELSE IF IsOpener(fmt, t[i]) THEN ~inside /\ Balanced(fmt, t, i + 1, TRUE)
    ELSE IF IsCloser(fmt, t[i]) THEN inside /\ Balanced(fmt, t, i + 1, FALSE)
    ELSE Balanced(fmt, t, i + 1, inside)

\* a well-formed library file: it ends with its only trailer line and every
\* record-opening line is matched by a closing line
WellFormed(fmt, t) ==
    /\ Len(t) >= 1
    /\ \A i \in 1..Len(t) : IsTrailer(t[i]) <=> i = Len(t)
    /\ Balanced(fmt, t, 1, FALSE)

\* the source record as the scan left it: [headerStart ?? start, end)
SourceRecord(sc) ==
    LET from == IF sc.index_header_start # 0 THEN sc.index_header_start ELSE sc.index_start
    IN [i \in 1..(sc.index_end - from) |-> sc.lines[from + i - 1]]

\* the source record from its opening line to its closing line: [start, end)
SourceBody(sc) ==
    [i \in 1..(sc.index_end - sc.index_start) |-> sc.lines[sc.index_start + i - 1]]

\* number of places where r occurs in t as a run of consecutive lines
Occurrences(t, r) ==
    Cardinality({i \in 1..Len(t) : i + Len(r) - 1 <= Len(t) /\ SubSeq(t, i, i + Len(r) - 1) = r})

\* the merge pass of fmt has run to its end in this run and its staging file is still there
Merged(fmt) ==
    /\ fmt \in aux.returned
    /\ fmt \notin aux.declined
    /\ fmt \notin aux.promoted

----------------------------------------------------------------------------
(* C1 *)

\* C1: when import_dcm or import_lib found a matching record in the target and the
\* operator declined the overwrite, the target file is, once import_all has ended,
\* what it was before the import.
C1_DeclinedMergeLeavesTarget ==
    \A fmt \in {"dcm", "lib"} :
        (Ended /\ fmt \in aux.declined) => TargetNow(fmt) = TargetBefore(fmt)

----------------------------------------------------------------------------
(* C2 *)

\* one of the four stages raised: the run failed before import_lib returned
StageRaised == pc = "failed" /\ aux.entered # {} /\ aux.returned # Stages

\* a file that was there, with content, when the run started is still what it was
Untouched(path) ==
    (aux.pre.files[path].exists /\ aux.pre.files[path].lines # <<>>)
        => fs.files[path] = aux.pre.files[path]

\* C2: when a stage raises, nothing is promoted and the target .dcm, the target .lib
\* and the installed footprint files are what they were before the run.
C2_StageFailureLeavesOriginals ==
    StageRaised =>
        /\ aux.promoted = {}
        /\ Untouched(dcm_file_read)
        /\ Untouched(lib_file_read)
        /\ \A n \in FpNames : Untouched(footprint_file_read(n))

----------------------------------------------------------------------------
(* C3 *)

\* the target of fmt was, before the run, a well-formed file without a record that the
\* device matches, and the merge pass has run over it
AppendCase(fmt) ==
    /\ Merged(fmt)
    /\ TargetBefore(fmt).exists
    /\ WellFormed(fmt, TargetBefore(fmt).lines)
    /\ Matching(fmt, TargetBefore(fmt).lines, Device(archive)) = {}

\* C3: merging into a well-formed target without a record for the device stages the
\* target's lines with the source record inserted immediately before the trailer
\* line; all lines of the target, so every record in it, are kept as they are.
C3_AppendBeforeTrailer ==
    \A fmt \in {"dcm", "lib"} :
        AppendCase(fmt) =>
            LET t == TargetBefore(fmt).lines
            IN /\ StagedNow(fmt).exists
               /\ StagedNow(fmt).lines =
                      SubSeq(t, 1, Len(t) - 1) \o SourceRecord(aux.scan[fmt]) \o <<t[Len(t)]>>
               /\ TargetNow(fmt) = TargetBefore(fmt)

\* both merges appended a record that has a header to a target holding another record
C3_Witness ==
    /\ pc = "promote"
    /\ AppendCase("dcm") /\ AppendCase("lib")
    /\ aux.scan["dcm"].index_header_start # 0
    /\ aux.scan["lib"].index_header_start # 0
    /\ \E i \in 1..Len(TargetBefore("lib").lines) : IsOpener("lib", TargetBefore("lib").lines[i])

----------------------------------------------------------------------------
(* C4 *)

\* the merge pass of fmt met a record the device matches and the operator confirmed
\* the first overwrite prompt
FirstOverwriteConfirmed(fmt) ==
    /\ fmt \in aux.entered
    /\ fmt \notin aux.promoted
    /\ aux.scan[fmt].exc = "none"
    /\ aux.prompts[fmt] >= (IF fmt \in aux.declined THEN 2 ELSE 1)

\* the target of fmt was well-formed with one record that the device matches, the
\* operator confirmed, and the merge pass ran to its end
ReplaceCase(fmt) ==
    /\ Merged(fmt)
    /\ aux.prompts[fmt] = 1
    /\ WellFormed(fmt, TargetBefore(fmt).lines)
    /\ Cardinality(Matching(fmt, TargetBefore(fmt).lines, Device(archive))) = 1

\* index of the first closing line of t after line s (Len(t) + 1 when there is none)
CloserAfter(fmt, t, s) ==
    Min({i \in (s + 1)..Len(t) : IsCloser(fmt, t[i])} \cup {Len(t) + 1})

\* start of the header block folded into the record that opens at line s: the first
\* bare '#' line of the run of comment lines that immediately precedes s
HeaderStart(t, s) ==
    Min({i \in 1..s : /\ \A j \in i..(s - 1) : StartsWith(t[j], s_hash)
                      /\ (i < s => Strip(t[i]) = s_hash)})

\* C4 as stated: on a confirmed overwrite the existing record and its header block are
\* replaced by the source record, every other line is copied.  (Stated for a
\* well-formed target holding one matching record; the source record is read either
\* with or without its own header.)
C4_ReplacesRecordAndHeader ==
    \A fmt \in {"dcm", "lib"} :
        ReplaceCase(fmt) =>
            LET t == TargetBefore(fmt).lines
                s == Min(Matching(fmt, t, Device(archive)))
                before == SubSeq(t, 1, HeaderStart(t, s) - 1)
                after == SubSeq(t, CloserAfter(fmt, t, s) + 1, Len(t))
            IN \/ StagedNow(fmt).lines = before \o SourceRecord(aux.scan[fmt]) \o after
               \/ StagedNow(fmt).lines = before \o SourceBody(aux.scan[fmt]) \o after

\* C4, amended: on a confirmed overwrite the lines of the target before the opening
\* line of the existing record, its header block included, are copied unchanged and
\* are followed by the source record from its opening to its closing line (without
\* the source header); in a well-formed target holding one matching record the
\* lines from the existing opening line to its closing line are thereby replaced
\* and every line after the closing line is copied unchanged.
C4_ReplacesRecordKeepsHeader ==
    \A fmt \in {"dcm", "lib"} :
        LET t == TargetNow(fmt).lines
            s == Min(Matching(fmt, t, Device(archive)))
            head == SubSeq(t, 1, s - 1) \o SourceBody(aux.scan[fmt])
        IN /\ FirstOverwriteConfirmed(fmt) =>
                /\ TargetNow(fmt) = TargetBefore(fmt)
                /\ SubSeq(StagedNow(fmt).lines, 1, Len(head)) = head
           /\ ReplaceCase(fmt) =>
                StagedNow(fmt).lines = head \o SubSeq(t, CloserAfter(fmt, t, s) + 1, Len(t))

\* both merges replaced a record that has a header block of its own and is followed
\* by another record
C4_Witness ==
    /\ pc = "promote"
    /\ ReplaceCase("dcm") /\ ReplaceCase("lib")
    /\ \A fmt \in {"dcm", "lib"} :
          LET t == TargetBefore(fmt).lines
              s == Min(Matching(fmt, t, Device(archive)))
          IN /\ HeaderStart(t, s) < s
             /\ CloserAfter(fmt, t, s) + 1 < Len(t)

----------------------------------------------------------------------------
(* C5 *)

\* C5: when no overwrite prompt was declined, the staged file holds the source record
\* exactly once.  (Stated for well-formed targets.)
C5_SourceRecordExactlyOnce ==
    \A fmt \in {"dcm", "lib"} :
        (Merged(fmt) /\ WellFormed(fmt, TargetNow(fmt).lines)) =>
            Occurrences(StagedNow(fmt).lines, SourceBody(aux.scan[fmt])) = 1

----------------------------------------------------------------------------
(* C6 *)

\* C6: a second import of the archive, every overwrite prompt confirmed in both runs
\* and the same answers given to the description prompts, leaves the target
\* libraries as the first import left them.
C6_SecondImportChangesNothing ==
    ( /\ pc = "done"
      /\ aux.prev.valid /\ aux.prev.completed
      /\ aux.prev.declined = {} /\ aux.declined = {}
      /\ aux.prev.desc = aux.desc )
    => /\ TargetNow("dcm") = TargetBefore("dcm")
       /\ TargetNow("lib") = TargetBefore("lib")

----------------------------------------------------------------------------
(* C7 *)

\* C7: when the import ends with the unexpected-device error, nothing has been
\* written: no file or directory was created or modified.
C7_UnexpectedDeviceWritesNothing ==
    (pc = "failed" /\ exc = UnexpectedDevice) => fs = aux.pre

----------------------------------------------------------------------------
(* C8 *)

SourceLines(fmt) ==
    IF fmt = "lib" THEN get_remote_info(archive).lib.lines
    ELSE IF get_remote_info(archive).dcm.present THEN get_remote_info(archive).dcm.lines
    ELSE default_dcm_attributes(Device(archive))

\* lines has a matched opening line and a second opening line before the first
\* closing line that follows it
SecondOpenerInsideRecord(fmt, lines, device) ==
    /\ Matching(fmt, lines, device) # {}
    /\ LET s == Min({i \in 1..Len(lines) : IsOpener(fmt, lines[i])})
       IN /\ s \in Matching(fmt, lines, device)
          /\ \E j \in (s + 1)..(CloserAfter(fmt, lines, s) - 1) : IsOpener(fmt, lines[j])

\* C8: when the source of fmt has a second opening line inside the matched record, the
\* stage that scans it ends the import with the multiple-devices error and the
\* merger has written neither the staging file nor the target.
C8_SecondOpenerInSourceRaises ==
    \A fmt \in {"dcm", "lib"} :
        (fmt \in aux.entered /\ SecondOpenerInsideRecord(fmt, SourceLines(fmt), Device(archive)))
        => /\ pc = "failed"
           /\ exc = MultipleDevices
           /\ fs.files[StagingPath(fmt)] = aux.pre.files[StagingPath(fmt)]
           /\ TargetNow(fmt) = TargetBefore(fmt)

----------------------------------------------------------------------------
(* C9 *)

\* t has two opening lines with no closing line between them
TwoOpenersNoCloser(fmt, t) ==
    \E i, j \in 1..Len(t) :
        /\ i < j
        /\ IsOpener(fmt, t[i]) /\ IsOpener(fmt, t[j])
        /\ \A k \in (i + 1)..(j - 1) : ~IsCloser(fmt, t[k])

\* C9: when the target read by the merge pass has two opening lines with no closing
\* line between them, the merge ends the import with the multiple-devices error.
C9_MalformedTargetRaises ==
    \A fmt \in {"dcm", "lib"} :
        ( /\ fmt \in aux.entered
          /\ aux.scan[fmt].exc = "none"
          /\ TwoOpenersNoCloser(fmt, TargetBefore(fmt).lines) )
        => (pc = "failed" /\ exc = MultipleDevices)

----------------------------------------------------------------------------
(* C10 *)

\* the archive holds a footprint and a model: an import of it in which every
\* prompt is confirmed stages all artifacts
CompleteArchive ==
    /\ first_with_suffix(get_remote_info(archive).footprint_items, s_dot_step).present
    /\ \E i \in 1..Len(get_remote_info(archive).footprint_items) :
           is_footprint(get_remote_info(archive).footprint_items[i].name)

\* C10: when the operator declined the prompt of one artifact and all four stages
\* returned, import_all ends without an error and has promoted the staged results.
C10_DeclineSkipsOneArtifactOnly ==
    ( /\ Ended
      /\ CompleteArchive
      /\ aux.returned = Stages
      /\ Cardinality(aux.declined) = 1 )
    => /\ pc = "done"
       /\ exc = "none"
       /\ aux.promoted = {"dcm", "footprint", "lib"}

----------------------------------------------------------------------------
(* C11 *)

\* F2 "
FieldOpen == <<"F", "2", " ", "\"">>

\* line is F2 "v" followed by anything
IsFootprintField(line) == StartsWith(line, FieldOpen) /\ Find(Drop(line, 4), <<"\"">>) # 0

\* the v of F2 "v"
FieldValue(line) == Take(Drop(line, 4), Find(Drop(line, 4), <<"\"">>) - 1)

\* what follows v, from its closing quote on
FieldRest(line) == Drop(Drop(line, 4), Find(Drop(line, 4), <<"\"">>) - 1)

\* F2 "<RemoteType>:v" with the rest of the line unchanged
Rewritten(line, remote_name) ==
    FieldOpen \o remote_name \o s_colon \o FieldValue(line) \o FieldRest(line)

\* C11: every footprint field line F2 "v" ... of the source symbol record is, in the
\* record written to the staged .lib, F2 "<RemoteType>:v" ... with the prefix applied
\* once and the rest of the line unchanged.
C11_FootprintFieldRewritten ==
    (Merged("lib") /\ Occurrences(StagedNow("lib").lines, SourceBody(aux.scan["lib"])) >= 1) =>
        LET sc == aux.scan["lib"]
            src == SourceLines("lib")
        IN \A i \in sc.index_start..(sc.index_end - 1) :
              IsFootprintField(src[i]) =>
                  sc.lines[i] = Rewritten(src[i], get_remote_info(archive).remote_name)

----------------------------------------------------------------------------
(* C12 *)

\* the source footprint with the model-reference block before its last line
WithModelBlock(lines, model_name) ==
    IF lines = <<>> THEN <<>>
    ELSE SubSeq(lines, 1, Len(lines) - 1) \o model_block(model_name) \o <<lines[Len(lines)]>>

\* the footprint definition files of the archive, by index into the listing
FootprintItems ==
    {i \in 1..Len(get_remote_info(archive).footprint_items) :
        is_footprint(get_remote_info(archive).footprint_items[i].name)}

\* C12: once import_all has ended after all four stages returned and the footprint
\* prompt was not declined, every footprint of the archive is installed: with the
\* model block before its last line when a model was installed in the run, verbatim
\* otherwise.
C12_InstalledFootprint ==
    (Ended /\ aux.returned = Stages /\ "footprint" \notin aux.declined) =>
        \A i \in FootprintItems :
            LET item == get_remote_info(archive).footprint_items[i]
            IN fs.files[footprint_file_read(item.name)] =
                   File(IF ret.found_model.present
                        THEN WithModelBlock(item.lines, ret.found_model.name)
                        ELSE item.lines)

----------------------------------------------------------------------------
(* C13 *)

\* C13: an installed footprint file that has the name of a source footprint keeps its
\* content unless the operator was asked by import_footprint and confirmed.
C13_FootprintOverwriteConfirmed ==
    \A i \in FootprintItems :
        LET p == footprint_file_read(get_remote_info(archive).footprint_items[i].name)
        IN (aux.pre.files[p].exists /\ fs.files[p] # aux.pre.files[p]) =>
               (aux.prompts["footprint"] >= 1 /\ "footprint" \notin aux.declined)

----------------------------------------------------------------------------
(* C14 *)

\* the empty-library template of fmt
Template(fmt) == IF fmt = "dcm" THEN dcm_template ELSE lib_template

\* the file the merge of fmt produced: the staging file, or the target once promoted
Result(fmt) == IF fmt \in aux.promoted THEN TargetNow(fmt) ELSE StagedNow(fmt)

\* the merge of fmt ran to its end on a target that was absent or zero-length
FreshTarget(fmt) ==
    /\ fmt \in aux.returned
    /\ fmt \notin aux.declined
    /\ (~TargetBefore(fmt).exists \/ TargetBefore(fmt).lines = <<>>)

\* C14: merging into an absent or zero-length target gives the target the template, and
\* the file produced is the template's lines before the trailer, one record block for
\* the device (one opening line, which names the device, and one closing line) and the
\* template's trailer as last line.
C14_FreshTargetGetsTemplate ==
    \A fmt \in {"dcm", "lib"} :
        FreshTarget(fmt) =>
            LET tpl == Template(fmt)
                res == Result(fmt).lines
            IN /\ fmt \notin aux.promoted => TargetNow(fmt) = File(tpl)
               /\ res = SubSeq(tpl, 1, Len(tpl) - 1) \o SourceRecord(aux.scan[fmt])
                            \o <<tpl[Len(tpl)]>>
               /\ Cardinality({i \in 1..Len(res) : IsOpener(fmt, res[i])}) = 1
               /\ Cardinality({i \in 1..Len(res) : IsCloser(fmt, res[i])}) = 1
               /\ \A i \in 1..Len(res) :
                     IsOpener(fmt, res[i]) => OpenerName(fmt, res[i]) = Device(archive)

----------------------------------------------------------------------------
(* C15 *)

\* the archive has none of the four layouts that get_remote_info tells apart: no
\* device.dcm / device.lib / device.pretty, no KiCad or KiCAD directory, no .lib
UnknownLayout(a) == a.layout = "SNAPEDA" /\ ~a.lib.present

\* C15: when the archive matches none of the four known layouts, import_all fails
\* before any write: no directory is created, no target or staging file is created
\* or modified, no model is extracted, and nothing is entered in the ledger
C15_UnknownLayoutFailsBeforeWrite ==
    (UnknownLayout(archive) /\ pc # "idle") =>
        /\ pc = "failed"
        /\ exc = "AssertionError"
        /\ fs = aux.pre
        /\ ledger = <<>>
        /\ aux.entered = {}

\* an import of an archive of unknown layout has failed, with a target library present
C15_Witness ==
    /\ UnknownLayout(archive)
    /\ pc = "failed"
    /\ TargetBefore("dcm").exists

----------------------------------------------------------------------------
(* C16 *)

StagePc(fmt) == IF fmt = "dcm" THEN "import_dcm" ELSE "import_lib"

NonEmpty(file) == file.exists /\ file.lines # <<>>

\* a step of import_dcm / import_lib: of all files only the staging file of its
\* format and a target that was absent or of length zero (it gets the template) may
\* change; a target with content is left as it is, no directory is made beside it,
\* and nothing is promoted
MergerStep(fmt) ==
    pc = StagePc(fmt) =>
        /\ \A p \in DOMAIN fs.files :
              p \notin {StagingPath(fmt), TargetPath(fmt)} => fs'.files[p] = fs.files[p]
        /\ NonEmpty(TargetNow(fmt)) =>
              /\ fs'.files[TargetPath(fmt)] = TargetNow(fmt)
              /\ fs'.dirs = fs.dirs
        /\ aux'.promoted = aux.promoted

\* a target with content changes only in the renames of import_all, which are
\* reached after all four stages have returned
TargetReplacedOnlyByRename(fmt) ==
    (NonEmpty(TargetNow(fmt)) /\ fs'.files[TargetPath(fmt)] # TargetNow(fmt)) =>
        /\ pc = "promote"
        /\ aux.returned = Stages
        /\ fs'.files[TargetPath(fmt)] = StagedNow(fmt)
        /\ fmt \in aux'.promoted

\* C16: import_dcm and import_lib never perform the promotion: from call to return
\* they write only to the staging path and leave the content of a non-empty target
\* library file unchanged; the target is replaced only by the rename in import_all
\* after all four stages have returned
C16_MergersNeverPromote ==
    [][\A fmt \in {"dcm", "lib"} : MergerStep(fmt) /\ TargetReplacedOnlyByRename(fmt)]_vars

\* import_lib has returned with a staged file that differs from its target, which
\* had content when the run started and still has it
C16_Witness ==
    /\ pc = "promote"
    /\ \A fmt \in {"dcm", "lib"} :
          /\ NonEmpty(TargetBefore(fmt))
          /\ TargetNow(fmt) = TargetBefore(fmt)
          /\ StagedNow(fmt).exists
          /\ StagedNow(fmt) # TargetNow(fmt)

----------------------------------------------------------------------------
(* C17 *)

\* the record of t that opens at line i, up to its closing line
RecordAt(fmt, t, i) == SubSeq(t, i, Min({CloserAfter(fmt, t, i), Len(t)}))

\* the opening lines of t that the device does not match: the records that are not
\* the one being replaced
OtherRecords(fmt, t, device) ==
    {i \in 1..Len(t) : IsOpener(fmt, t[i])} \ Matching(fmt, t, device)

\* C17: well-formedness of a target library file is preserved: if the file, before
\* import_all, ends with a trailer line and has every opening line matched by a
\* closing line, then the file promoted over it also ends with the trailer line, has
\* every opening line matched by a closing line, and still contains every record
\* that was not the one being replaced
C17_WellFormednessPreserved ==
    \A fmt \in {"dcm", "lib"} :
        (/\ fmt \in aux.promoted
         /\ TargetBefore(fmt).exists
         /\ WellFormed(fmt, TargetBefore(fmt).lines)) =>
            LET before == TargetBefore(fmt).lines
                now == TargetNow(fmt).lines
            IN /\ WellFormed(fmt, now)
               /\ \A i \in OtherRecords(fmt, before, Device(archive)) :
                     Occurrences(now, RecordAt(fmt, before, i)) >= 1

----------------------------------------------------------------------------
(* C18 *)

\* the scan of fmt after the first n lines of its source (no line before the
\* record's opening line reads an answer)
ScanAfter(fmt, n) ==
    LET lines == SubSeq(SourceLines(fmt), 1, n)
    IN IF fmt = "dcm" THEN dcm_scan_loop(ScanStart(lines), Device(archive), <<>>,
                                       get_remote_info(archive).dcm)
       ELSE lib_scan_loop(ScanStart(lines), Device(archive), get_remote_info(archive).remote_name)

\* line n of the source is read while no record opener has been matched
BeforeOpener(fmt, n) ==
    /\ n \in 1..Len(SourceLines(fmt))
    /\ ScanAfter(fmt, n - 1).index_start = 0
    /\ ScanAfter(fmt, n - 1).exc = "none"

IsBare(line) == Strip(line) = s_hash

IsComment(line) == StartsWith(line, s_hash)

\* the header range [headerStart, start) of a scan that matched an opener
HeaderRange(sc) ==
    (IF sc.index_header_start = 0 THEN sc.index_start ELSE sc.index_header_start)
        ..(sc.index_start - 1)

\* C18 as stated: while no record opener has been matched, every line that is neither
\* a bare '#' line nor a record-opening line clears headerStart; so the header range
\* [headerStart, start) is a run of bare '#' lines immediately preceding the opener
C18_HeaderIsRunOfBareLines ==
    \A fmt \in {"dcm", "lib"} :
        fmt \in aux.entered =>
            LET src == SourceLines(fmt)
                sc == aux.scan[fmt]
            IN /\ \A n \in 1..Len(src) :
                     (BeforeOpener(fmt, n) /\ ~IsBare(src[n]) /\ ~IsOpener(fmt, src[n])) =>
                         ScanAfter(fmt, n).index_header_start = 0
               /\ sc.index_start # 0 => \A i \in HeaderRange(sc) : IsBare(src[i])

\* C18, amended: while no record opener has been matched, a line that neither starts
\* with '#' nor opens a record clears headerStart, a bare '#' line sets it when it is
\* not set, and any other line starting with '#' leaves it as it is; so the header
\* range [headerStart, start) is the run of lines starting with '#' that immediately
\* precedes the opener, taken from the first bare '#' line of that run
C18_HeaderIsRunOfCommentLines ==
    \A fmt \in {"dcm", "lib"} :
        fmt \in aux.entered =>
            LET src == SourceLines(fmt)
                sc == aux.scan[fmt]
            IN /\ \A n \in 1..Len(src) :
                     BeforeOpener(fmt, n) =>
                         LET before == ScanAfter(fmt, n - 1).index_header_start
                             after == ScanAfter(fmt, n).index_header_start
                         IN IF IsComment(src[n])
                            THEN after = (IF IsBare(src[n]) /\ before = 0 THEN n ELSE before)
                            ELSE ~IsOpener(fmt, src[n]) => after = 0
               /\ sc.index_start # 0 =>
                     /\ Min(HeaderRange(sc) \cup {sc.index_start}) = HeaderStart(src, sc.index_start)
                     /\ \A i \in HeaderRange(sc) : IsComment(src[i])
                     /\ HeaderRange(sc) # {} => IsBare(src[Min(HeaderRange(sc))])

\* the scan of the .lib matched an opener after a line had cleared headerStart, and the
\* header range it kept holds a comment line that is not bare
C18_Witness ==
    /\ "lib" \in aux.entered
    /\ aux.scan["lib"].index_start # 0
    /\ \E n \in 1..(aux.scan["lib"].index_start - 1) :
          /\ ~IsComment(SourceLines("lib")[n])
          /\ ScanAfter("lib", n - 1).index_header_start # 0
          /\ ScanAfter("lib", n).index_header_start = 0
    /\ \E i \in HeaderRange(aux.scan["lib"]) : ~IsBare(SourceLines("lib")[i])

----------------------------------------------------------------------------
(* C19 *)

\* lines has no record that is opened and then closed: no opening line, or no closing
\* line after the first one
NoClosedRecord(fmt, lines) ==
    \/ \A i \in 1..Len(lines) : ~IsOpener(fmt, lines[i])
    \/ LET o == Min({i \in 1..Len(lines) : IsOpener(fmt, lines[i])})
       IN \A i \in (o + 1)..Len(lines) : ~IsCloser(fmt, lines[i])

\* the scan of fmt has read its source to the last line
ScanReachedEnd(fmt) ==
    /\ fmt \in aux.entered
    /\ aux.scan[fmt].i > Len(SourceLines(fmt))

\* C19: if the source scan reaches end of input without having matched a closing line
\* for the device's record (the opener is missing, or it was found but its closing
\* line is missing), the merger raises the not-found error before the target or the
\* staging file is created, opened or written
C19_UnclosedSourceRaisesBeforeWrite ==
    \A fmt \in {"dcm", "lib"} :
        (ScanReachedEnd(fmt) /\ NoClosedRecord(fmt, SourceLines(fmt))) =>
            /\ pc = "failed"
            /\ exc = DeviceNotFound
            /\ fmt \notin aux.returned
            /\ fs.files[TargetPath(fmt)] = aux.pre.files[TargetPath(fmt)]
            /\ fs.files[StagingPath(fmt)] = aux.pre.files[StagingPath(fmt)]
            /\ \A e \in 1..Len(ledger) : ledger[e].obj \notin {TargetPath(fmt), StagingPath(fmt)}
            /\ fmt = "dcm" => fs = aux.pre /\ ledger = <<>>

\* the scan of the .lib matched the opening line of the record, read on to the end
\* without a closing line, and import_lib raised; no target library was there
C19_Witness ==
    /\ ScanReachedEnd("lib")
    /\ NoClosedRecord("lib", SourceLines("lib"))
    /\ aux.scan["lib"].index_start # 0
    /\ pc = "failed"
    /\ ~TargetBefore("lib").exists

----------------------------------------------------------------------------
(* C20 *)

AllPromoted == {"dcm", "footprint", "lib"}

\* C20: promotion is all-or-nothing across the three targets: in every run, however it
\* ends, either the staged .dcm, the staged footprint and the staged .lib have all been
\* renamed over their originals or none of them has; a run in which all four stages
\* returned and no prompt was declined, with or without a 3D model, ends with all
\* three promoted and the result 'OK:'
C20_PromotionAllOrNothing ==
    Ended =>
        /\ aux.promoted \in {{}, AllPromoted}
        /\ (aux.returned = Stages /\ aux.declined = {}) =>
              /\ pc = "done"
              /\ exc = "none"
              /\ aux.promoted = AllPromoted

----------------------------------------------------------------------------
(* C21 *)

\* the key under which a side effect on path p is entered in modified_objects: the
\* path itself, and for an extracted model the member of the archive
LedgerObj(p) == IF p.kind = "model" THEN [kind |-> "zip", name |-> p.name] ELSE p

HasEntry(L, obj) == \E i \in 1..Len(L) : L[i].obj = obj

\* every file that a step creates, changes or removes, and every directory it makes,
\* has an entry in the ledger after the step
StepIsEntered ==
    /\ \A p \in DOMAIN fs.files :
          fs'.files[p] # fs.files[p] => HasEntry(ledger', LedgerObj(p))
    /\ \A d \in fs'.dirs \ fs.dirs :
          \E i \in 1..Len(ledger') : ledger'[i] = [obj |-> DirObj(d), mod |-> "MKDIR"]

\* the entries there were are still there, unchanged and in the same order, before
\* the entries the step added
LedgerExtended ==
    /\ Len(ledger') >= Len(ledger)
    /\ SubSeq(ledger', 1, Len(ledger)) = ledger

\* C21: the modification ledger is complete and ordered: at every point of an import
\* run every filesystem side effect performed so far (directory created, file created
\* by touch, file content modified, file extracted) has an entry in modified_objects,
\* entries appear in order of occurrence, and an entry once added is never removed
\* or changed
C21_LedgerCompleteAndOrdered == [][StepIsEntered /\ LedgerExtended]_vars

\* the part of C21 that speaks of the entries alone
C21_LedgerAppendOnly == [][LedgerExtended]_vars

\* what the code does enter: a file that check_file or zf.extract brings into being
\* and a directory that is made.  (Left out: the installed footprint, which
\* open('wt') creates without check_file when there is no model, and the renames.)
C21_CreationsEntered ==
    [][/\ \A p \in DOMAIN fs.files :
             (~fs.files[p].exists /\ fs'.files[p].exists /\ p.kind # "footprint"
              /\ pc # "promote") => HasEntry(ledger', LedgerObj(p))
       /\ \A d \in fs'.dirs \ fs.dirs : HasEntry(ledger', DirObj(d))]_vars
====
